---------------------------- MODULE Spec2Model ----------------------------
(***************************************************************************)
(* A model of the autocuber backend: the group kit (group.rs), the cube    *)
(* permutation algebra (permute.rs), the move parser (cube.rs), the        *)
(* signature graph and its Dijkstra solver (intuitive.rs), the algorithmic *)
(* solver (algorithmic.rs) and the Roux driver (roux.rs).                  *)
(***************************************************************************)
EXTENDS Integers, Sequences, FiniteSets, TLC

(***************************************************************************)
(* Arrays.  A Rust array [T; N] is a function on 0..N-1.                   *)
(***************************************************************************)
Arr(t) == [i \in 0..(Len(t) - 1) |-> t[i + 1]]

ArrLen(a) == Cardinality(DOMAIN a)

(***************************************************************************)
(* cube.rs: enumerations and their canonical orderings.                    *)
(***************************************************************************)
FaceType == Arr(<<"F", "R", "U", "B", "L", "D">>)

EdgeType == Arr(<<"UR", "UF", "UL", "UB", "DR", "DF", "DL", "DB", "FR", "FL", "BR", "BL">>)

CornerType == Arr(<<"FUR", "FUL", "FDR", "FDL", "BUR", "BUL", "BDR", "BDL">>)

Axis == {"FB", "RL", "UD"}

RotationType == {"Normal", "Double", "Inverse"}

Range(a) == {a[i] : i \in DOMAIN a}

\* Enumerable::index, as a lookup table per carrier.
IndexTable(enum) == [x \in Range(enum) |-> CHOOSE i \in DOMAIN enum : enum[i] = x]

FaceIndex == IndexTable(FaceType)

EdgeIndex == IndexTable(EdgeType)

CornerIndex == IndexTable(CornerType)

\* RotationType::inverse
RotationInverse(r) ==
    CASE r = "Normal" -> "Inverse"
      [] r = "Double" -> "Double"
      [] r = "Inverse" -> "Normal"

(***************************************************************************)
(* group.rs: the cyclic group Z/kZ.                                        *)
(***************************************************************************)
\* A twist that is never reduced modulo k.
CyclicNewNoWrap(k, value) == value

\* CyclicGroup::new
CyclicNew(k, value) == value % k

CyclicOp(k, a, b) == CyclicNew(k, a + b)

CyclicInverse(k, a) == CyclicNew(k, k - a)

(***************************************************************************)
(* group.rs: SymmetricGroup<S>.  map[i] is the image of the i-th element.  *)
(***************************************************************************)
SymIdentity(enum) == enum

SymOp(idx, self, other) == [i \in DOMAIN other |-> self[idx[other[i]]]]

\* inverse() writes S::from_index(i) into slot map[i].index() for i = 0..N-1
\* in turn: the last write to a slot stays.  A slot no i writes to keeps an
\* uninitialised value, modelled as the marker "uninit".
SymInverse(enum, idx, self) ==
    [j \in DOMAIN self |->
        LET hits == {i \in DOMAIN self : idx[self[i]] = j}
        IN  IF hits = {} THEN "uninit"
            ELSE enum[CHOOSE i \in hits : \A h \in hits : h <= i]]

SymAct(idx, self, s) == self[idx[s]]

(***************************************************************************)
(* group.rs: OrientedSymmetricGroup<S, K>.  map[i] = <<image, twist>>.     *)
(***************************************************************************)
OrientedIdentity(enum) == [i \in DOMAIN enum |-> <<enum[i], 0>>]

\* A composition that reads the twist of self at the slot i instead of at
\* the slot its cubelet has moved to.
OrientedOpTwistInPlace(k, idx, self, other) ==
    [i \in DOMAIN other |->
        <<self[idx[other[i][1]]][1], CyclicOp(k, other[i][2], self[i][2])>>]

OrientedOp(k, idx, self, other) ==
    [i \in DOMAIN other |->
        LET s2r2 == self[idx[other[i][1]]]
        IN  <<s2r2[1], CyclicOp(k, other[i][2], s2r2[2])>>]

OrientedInverse(k, enum, idx, self) ==
    [j \in DOMAIN self |->
        LET hits == {i \in DOMAIN self : idx[self[i][1]] = j}
        IN  IF hits = {} THEN <<"uninit", 0>>
            ELSE LET i == CHOOSE h \in hits : \A g \in hits : g <= h
                 IN  <<enum[i], CyclicInverse(k, self[i][2])>>]

\* An action that forgets the twist the pair arrives with.
OrientedActDropsTwist(k, idx, self, sr) == self[idx[sr[1]]]

\* GroupAction::act on a pair (s, r)
OrientedAct(k, idx, self, sr) ==
    LET s2r2 == self[idx[sr[1]]]
    IN  <<s2r2[1], CyclicOp(k, sr[2], s2r2[2])>>

\* GroupAction::unact: act by the inverse
OrientedUnact(k, enum, idx, self, sr) ==
    OrientedAct(k, idx, OrientedInverse(k, enum, idx, self), sr)

(***************************************************************************)
(* permute.rs: the three component groups of the cube.                     *)
(***************************************************************************)
CentreIdentity == SymIdentity(FaceType)

CentreOp(a, b) == SymOp(FaceIndex, a, b)

CentreInverse(a) == SymInverse(FaceType, FaceIndex, a)

CentreAct(a, s) == SymAct(FaceIndex, a, s)

EdgeIdentity == OrientedIdentity(EdgeType)

EdgeOp(a, b) == OrientedOp(2, EdgeIndex, a, b)

EdgeInverse(a) == OrientedInverse(2, EdgeType, EdgeIndex, a)

EdgeAct(a, sr) == OrientedAct(2, EdgeIndex, a, sr)

EdgeUnact(a, sr) == OrientedUnact(2, EdgeType, EdgeIndex, a, sr)

CornerIdentity == OrientedIdentity(CornerType)

CornerOp(a, b) == OrientedOp(3, CornerIndex, a, b)

CornerInverse(a) == OrientedInverse(3, CornerType, CornerIndex, a)

CornerAct(a, sr) == OrientedAct(3, CornerIndex, a, sr)

CornerUnact(a, sr) == OrientedUnact(3, CornerType, CornerIndex, a, sr)

\* CentrePermutation::from_normal_slice_turn
CentreFromNormalSliceTurn(axis) ==
    CASE axis = "FB" -> Arr(<<"F", "D", "R", "B", "U", "L">>)
      [] axis = "RL" -> Arr(<<"U", "R", "B", "D", "L", "F">>)
      [] axis = "UD" -> Arr(<<"L", "F", "U", "R", "B", "D">>)

\* EdgePermutation::from_normal_face_turn
EdgeFromNormalFaceTurn(face) ==
    CASE face = "F" -> Arr(<<
            <<"UR", 0>>, <<"FR", 1>>, <<"UL", 0>>, <<"UB", 0>>,
            <<"DR", 0>>, <<"FL", 1>>, <<"DL", 0>>, <<"DB", 0>>,
            <<"DF", 1>>, <<"UF", 1>>, <<"BR", 0>>, <<"BL", 0>> >>)
      [] face = "R" -> Arr(<<
            <<"BR", 0>>, <<"UF", 0>>, <<"UL", 0>>, <<"UB", 0>>,
            <<"FR", 0>>, <<"DF", 0>>, <<"DL", 0>>, <<"DB", 0>>,
            <<"UR", 0>>, <<"FL", 0>>, <<"DR", 0>>, <<"BL", 0>> >>)
      [] face = "U" -> Arr(<<
            <<"UF", 0>>, <<"UL", 0>>, <<"UB", 0>>, <<"UR", 0>>,
            <<"DR", 0>>, <<"DF", 0>>, <<"DL", 0>>, <<"DB", 0>>,
            <<"FR", 0>>, <<"FL", 0>>, <<"BR", 0>>, <<"BL", 0>> >>)
      [] face = "B" -> Arr(<<
            <<"UR", 0>>, <<"UF", 0>>, <<"UL", 0>>, <<"BL", 1>>,
            <<"DR", 0>>, <<"DF", 0>>, <<"DL", 0>>, <<"BR", 1>>,
            <<"FR", 0>>, <<"FL", 0>>, <<"UB", 1>>, <<"DB", 1>> >>)
      [] face = "L" -> Arr(<<
            <<"UR", 0>>, <<"UF", 0>>, <<"FL", 0>>, <<"UB", 0>>,
            <<"DR", 0>>, <<"DF", 0>>, <<"BL", 0>>, <<"DB", 0>>,
            <<"FR", 0>>, <<"DL", 0>>, <<"BR", 0>>, <<"UL", 0>> >>)
      [] face = "D" -> Arr(<<
            <<"UR", 0>>, <<"UF", 0>>, <<"UL", 0>>, <<"UB", 0>>,
            <<"DB", 0>>, <<"DR", 0>>, <<"DF", 0>>, <<"DL", 0>>,
            <<"FR", 0>>, <<"FL", 0>>, <<"BR", 0>>, <<"BL", 0>> >>)

\* A slice turn table whose UD turn leaves the twist of its edges alone.
EdgeFromNormalSliceTurnFlatUD(axis) ==
    CASE axis = "FB" -> Arr(<<
            <<"DR", 1>>, <<"UF", 0>>, <<"UR", 1>>, <<"UB", 0>>,
            <<"DL", 1>>, <<"DF", 0>>, <<"UL", 1>>, <<"DB", 0>>,
            <<"FR", 0>>, <<"FL", 0>>, <<"BR", 0>>, <<"BL", 0>> >>)
      [] axis = "RL" -> Arr(<<
            <<"UR", 0>>, <<"UB", 1>>, <<"UL", 0>>, <<"DB", 1>>,
            <<"DR", 0>>, <<"UF", 1>>, <<"DL", 0>>, <<"DF", 1>>,
            <<"FR", 0>>, <<"FL", 0>>, <<"BR", 0>>, <<"BL", 0>> >>)
      [] axis = "UD" -> Arr(<<
            <<"UR", 0>>, <<"UF", 0>>, <<"UL", 0>>, <<"UB", 0>>,
            <<"DR", 0>>, <<"DF", 0>>, <<"DL", 0>>, <<"DB", 0>>,
            <<"FL", 0>>, <<"BL", 0>>, <<"FR", 0>>, <<"BR", 0>> >>)

\* EdgePermutation::from_normal_slice_turn
EdgeFromNormalSliceTurn(axis) ==
    CASE axis = "FB" -> Arr(<<
            <<"DR", 1>>, <<"UF", 0>>, <<"UR", 1>>, <<"UB", 0>>,
            <<"DL", 1>>, <<"DF", 0>>, <<"UL", 1>>, <<"DB", 0>>,
            <<"FR", 0>>, <<"FL", 0>>, <<"BR", 0>>, <<"BL", 0>> >>)
      [] axis = "RL" -> Arr(<<
            <<"UR", 0>>, <<"UB", 1>>, <<"UL", 0>>, <<"DB", 1>>,
            <<"DR", 0>>, <<"UF", 1>>, <<"DL", 0>>, <<"DF", 1>>,
            <<"FR", 0>>, <<"FL", 0>>, <<"BR", 0>>, <<"BL", 0>> >>)
      [] axis = "UD" -> Arr(<<
            <<"UR", 0>>, <<"UF", 0>>, <<"UL", 0>>, <<"UB", 0>>,
            <<"DR", 0>>, <<"DF", 0>>, <<"DL", 0>>, <<"DB", 0>>,
            <<"FL", 1>>, <<"BL", 1>>, <<"FR", 1>>, <<"BR", 1>> >>)

\* CornerPermutation::from_normal_face_turn
CornerFromNormalFaceTurn(face) ==
    CASE face = "F" -> Arr(<<
            <<"FDR", 2>>, <<"FUR", 1>>, <<"FDL", 1>>, <<"FUL", 2>>,
            <<"BUR", 0>>, <<"BUL", 0>>, <<"BDR", 0>>, <<"BDL", 0>> >>)
      [] face = "R" -> Arr(<<
            <<"BUR", 1>>, <<"FUL", 0>>, <<"FUR", 2>>, <<"FDL", 0>>,
            <<"BDR", 2>>, <<"BUL", 0>>, <<"FDR", 1>>, <<"BDL", 0>> >>)
      [] face = "U" -> Arr(<<
            <<"FUL", 0>>, <<"BUL", 0>>, <<"FDR", 0>>, <<"FDL", 0>>,
            <<"FUR", 0>>, <<"BUR", 0>>, <<"BDR", 0>>, <<"BDL", 0>> >>)
      [] face = "B" -> Arr(<<
            <<"FUR", 0>>, <<"FUL", 0>>, <<"FDR", 0>>, <<"FDL", 0>>,
            <<"BUL", 1>>, <<"BDL", 2>>, <<"BUR", 2>>, <<"BDR", 1>> >>)
      [] face = "L" -> Arr(<<
            <<"FUR", 0>>, <<"FDL", 2>>, <<"FDR", 0>>, <<"BDL", 1>>,
            <<"BUR", 0>>, <<"FUL", 1>>, <<"BDR", 0>>, <<"BUL", 2>> >>)
      [] face = "D" -> Arr(<<
            <<"FUR", 0>>, <<"FUL", 0>>, <<"BDR", 0>>, <<"FDR", 0>>,
            <<"BUR", 0>>, <<"BUL", 0>>, <<"BDL", 0>>, <<"FDL", 0>> >>)

\* CentrePermutation::from_slice_turn
CentreFromSliceTurn(axis, rotation_type) ==
    LET s == CentreFromNormalSliceTurn(axis)
    IN  CASE rotation_type = "Normal" -> s
          [] rotation_type = "Double" -> CentreOp(s, s)
          [] rotation_type = "Inverse" -> CentreInverse(s)

\* A face turn that takes every rotation type for a quarter turn.
EdgeFromFaceTurnNormalOnly(face, rotation_type) == EdgeFromNormalFaceTurn(face)

\* EdgePermutation::from_face_turn
EdgeFromFaceTurn(face, rotation_type) ==
    LET s == EdgeFromNormalFaceTurn(face)
    IN  CASE rotation_type = "Normal" -> s
          [] rotation_type = "Double" -> EdgeOp(s, s)
          [] rotation_type = "Inverse" -> EdgeInverse(s)

\* EdgePermutation::from_slice_turn
EdgeFromSliceTurn(axis, rotation_type) ==
    LET s == EdgeFromNormalSliceTurn(axis)
    IN  CASE rotation_type = "Normal" -> s
          [] rotation_type = "Double" -> EdgeOp(s, s)
          [] rotation_type = "Inverse" -> EdgeInverse(s)

\* A face turn that takes every rotation type for a quarter turn.
CornerFromFaceTurnNormalOnly(face, rotation_type) == CornerFromNormalFaceTurn(face)

\* CornerPermutation::from_face_turn
CornerFromFaceTurn(face, rotation_type) ==
    LET s == CornerFromNormalFaceTurn(face)
    IN  CASE rotation_type = "Normal" -> s
          [] rotation_type = "Double" -> CornerOp(s, s)
          [] rotation_type = "Inverse" -> CornerInverse(s)

(***************************************************************************)
(* permute.rs: CubePermutation3, the direct product of the three groups.   *)
(***************************************************************************)
CubeIdentity ==
    [centres |-> CentreIdentity, edges |-> EdgeIdentity, corners |-> CornerIdentity]

CubeOp(self, other) ==
    [centres |-> CentreOp(self.centres, other.centres),
     edges   |-> EdgeOp(self.edges, other.edges),
     corners |-> CornerOp(self.corners, other.corners)]

CubeInverse(self) ==
    [centres |-> CentreInverse(self.centres),
     edges   |-> EdgeInverse(self.edges),
     corners |-> CornerInverse(self.corners)]

\* A function constructor is evaluated on demand; comparing a value with
\* itself makes it a table, as the arrays of the program are.  The loops
\* below do the same to their accumulator before they go round again.
Strict(v) == IF v = v THEN v ELSE v

\* A face turn that takes the centres round with it, as the slice turn of
\* its axis does.
CubeFromFaceTurnWithCentres(face, rotation_type) ==
    [centres |-> CentreFromSliceTurn(
                    CASE face \in {"F", "B"} -> "FB" [] face \in {"R", "L"} -> "RL"
                      [] OTHER -> "UD", rotation_type),
     edges   |-> EdgeFromFaceTurn(face, rotation_type),
     corners |-> CornerFromFaceTurn(face, rotation_type)]

\* CubePermutation3::from_face_turn
CubeFromFaceTurn(face, rotation_type) ==
    [centres |-> CentreIdentity,
     edges   |-> EdgeFromFaceTurn(face, rotation_type),
     corners |-> CornerFromFaceTurn(face, rotation_type)]

\* CubePermutation3::from_slice_turn
CubeFromSliceTurn(axis, rotation_type) ==
    [centres |-> CentreFromSliceTurn(axis, rotation_type),
     edges   |-> EdgeFromSliceTurn(axis, rotation_type),
     corners |-> CornerIdentity]

FrontFace(axis) ==
    CASE axis = "FB" -> "F" [] axis = "RL" -> "R" [] axis = "UD" -> "U"

BackFace(axis) ==
    CASE axis = "FB" -> "B" [] axis = "RL" -> "L" [] axis = "UD" -> "D"

\* A layer turn that forgets to invert the rotation of the back face.
LayerTurnBackNotInverted(mv, i) ==
    CASE i = 0 -> CubeFromFaceTurn(FrontFace(mv.axis), mv.rotation_type)
      [] i = 1 -> CubeFromSliceTurn(mv.axis, mv.rotation_type)
      [] i = 2 -> CubeFromFaceTurn(BackFace(mv.axis), mv.rotation_type)

\* The layer turn h that from_move composes for depth i (0, 1 or 2).
LayerTurn(mv, i) ==
    CASE i = 0 -> CubeFromFaceTurn(FrontFace(mv.axis), mv.rotation_type)
      [] i = 1 -> CubeFromSliceTurn(mv.axis, mv.rotation_type)
      [] i = 2 -> CubeFromFaceTurn(BackFace(mv.axis), RotationInverse(mv.rotation_type))

\* from_move panics on a depth that is no layer of a 3x3x3 cube.
FromMovePanics(mv) == \E i \in mv.start_depth..(mv.end_depth - 1) : i > 2

RECURSIVE FromMoveLoop(_, _, _)
FromMoveLoop(mv, i, g) ==
    IF i >= mv.end_depth THEN g
    ELSE FromMoveLoop(mv, i + 1, CubeOp(g, LayerTurn(mv, i)))

\* A from_move whose loop starts at the front layer whatever start_depth is.
FromMoveFromFront(mv) == FromMoveLoop(mv, 0, CubeIdentity)

\* CubePermutation3::from_move
FromMove(mv) == FromMoveLoop(mv, mv.start_depth, CubeIdentity)

RECURSIVE FromMoveSequenceLoop(_, _, _)
FromMoveSequenceLoop(moves, n, g) ==
    IF n = 0 THEN g
    ELSE LET h == CubeOp(g, FromMove(moves[n]))
         IN  IF h = h THEN FromMoveSequenceLoop(moves, n - 1, h) ELSE h

\* A from_move_sequence that forgets the rev(): the moves in written order.
FromMoveSequenceNoRev(moves) ==
    FromMoveSequenceLoop([i \in 1..Len(moves) |-> moves[Len(moves) + 1 - i]],
                         Len(moves), CubeIdentity)

\* CubePermutation3::from_move_sequence: the moves in reverse, each
\* multiplied on the right of the accumulator.
FromMoveSequence(moves) == FromMoveSequenceLoop(moves, Len(moves), CubeIdentity)

(***************************************************************************)
(* cube.rs: the move parser.  A token is a sequence of characters.         *)
(***************************************************************************)
MkMove(axis, rotation_type, start_depth, end_depth) ==
    [axis |-> axis, rotation_type |-> rotation_type,
     start_depth |-> start_depth, end_depth |-> end_depth]

LowerCase == {"f", "r", "u", "b", "l", "d", "m", "e", "s", "x", "w"}

\* char::to_uppercase on the characters the model draws tokens from
ToUppercase(c) ==
    CASE c = "f" -> "F" [] c = "r" -> "R" [] c = "u" -> "U"
      [] c = "b" -> "B" [] c = "l" -> "L" [] c = "d" -> "D"
      [] c = "m" -> "M" [] c = "e" -> "E" [] c = "s" -> "S"
      [] c = "x" -> "X" [] c = "w" -> "W"
      [] OTHER -> c

IsLowercase(c) == c \in LowerCase

Err == [err |-> TRUE]

Ok(v) == [err |-> FALSE, value |-> v]

\* A modifier loop that skips a character it does not know.
RECURSIVE ParseModifiersSkipsUnknown(_, _, _)
ParseModifiersSkipsUnknown(chars, i, st) ==
    IF i > Len(chars) \/ st[3] THEN st
    ELSE LET c == chars[i]
         IN  ParseModifiersSkipsUnknown(chars, i + 1,
                CASE c = "w" -> <<2, st[2], FALSE>>
                  [] c = "2" -> <<st[1], "Double", FALSE>>
                  [] c = "'" -> <<st[1], IF st[2] # "Double" THEN "Inverse" ELSE st[2], FALSE>>
                  [] OTHER -> st)

\* The modifier loop of Move::from_str: st = <<end_depth, rotation_type, failed>>
RECURSIVE ParseModifiers(_, _, _)
ParseModifiers(chars, i, st) ==
    IF i > Len(chars) \/ st[3] THEN st
    ELSE LET c == chars[i]
         IN  ParseModifiers(chars, i + 1,
                CASE c = "w" -> <<2, st[2], FALSE>>
                  [] c = "2" -> <<st[1], "Double", FALSE>>
                  [] c = "'" -> <<st[1], IF st[2] # "Double" THEN "Inverse" ELSE st[2], FALSE>>
                  [] OTHER -> <<st[1], st[2], TRUE>>)

NCube == 3

\* The Moves of a 3x3x3 cube: layers start_depth..end_depth-1 of an axis.
Moves3 ==
    {MkMove(a, r, d[1], d[2]) : a \in Axis, r \in RotationType,
        d \in {e \in (0..NCube) \X (0..NCube) : e[1] < e[2]}}

\* impl FromStr for Move
ParseMove(s) ==
    IF Len(s) = 0 THEN Err
    ELSE
      LET face_char == s[1]
          turn_direction ==
              CASE face_char = "M" -> "L"
                [] face_char = "E" -> "D"
                [] face_char = "S" -> "F"
                [] OTHER -> face_char
          face == ToUppercase(turn_direction)
          end0 == IF IsLowercase(face_char) THEN 2 ELSE 1
          isSlice == face_char \in {"M", "E", "S"}
          start_depth == IF isSlice THEN 1 ELSE 0
          end1 == IF isSlice THEN 2 ELSE end0
          st == ParseModifiers(s, 2, <<end1, "Normal", FALSE>>)
          end_depth == st[1]
          rotation_type == st[2]
      IN  IF face \notin Range(FaceType) THEN Err
          ELSE IF st[3] THEN Err
          ELSE CASE face = "F" -> Ok(MkMove("FB", rotation_type, start_depth, end_depth))
                 [] face = "R" -> Ok(MkMove("RL", rotation_type, start_depth, end_depth))
                 [] face = "U" -> Ok(MkMove("UD", rotation_type, start_depth, end_depth))
                 [] face = "B" -> Ok(MkMove("FB", RotationInverse(rotation_type),
                                            NCube - end_depth, NCube - start_depth))
                 [] face = "L" -> Ok(MkMove("RL", RotationInverse(rotation_type),
                                            NCube - end_depth, NCube - start_depth))
                 [] face = "D" -> Ok(MkMove("UD", RotationInverse(rotation_type),
                                            NCube - end_depth, NCube - start_depth))

\* impl FromStr for MoveSequence, on the list of tokens s.split(' ') yields
RECURSIVE ParseSequenceLoop(_, _, _)
ParseSequenceLoop(tokens, i, acc) ==
    IF i > Len(tokens) THEN Ok(acc)
    ELSE LET r == ParseMove(tokens[i])
         IN  IF r.err THEN Err ELSE ParseSequenceLoop(tokens, i + 1, Append(acc, r.value))

ParseSequence(tokens) == ParseSequenceLoop(tokens, 1, <<>>)

(***************************************************************************)
(* MoveSequence as a group-like value: inverse, op, canonicalise and the   *)
(* ordering used by sort().  intuitive.rs and algorithmic.rs call these.   *)
(***************************************************************************)
MoveInverse(mv) ==
    MkMove(mv.axis, RotationInverse(mv.rotation_type), mv.start_depth, mv.end_depth)

\* MoveSequence::inverse: the moves in reverse order, each inverted.
SeqInverse(moves) ==
    [i \in 1..Len(moves) |-> MoveInverse(moves[Len(moves) + 1 - i])]

\* MoveSequence::op, the magma operation on sequences: self . other performs
\* other first, as the permutations do.
SeqOp(self, other) == other \o self

QuarterTurns(rotation_type) ==
    CASE rotation_type = "Normal" -> 1
      [] rotation_type = "Double" -> 2
      [] rotation_type = "Inverse" -> 3

RotationOfTurns(n) ==
    CASE n = 1 -> "Normal" [] n = 2 -> "Double" [] n = 3 -> "Inverse"

SameLayers(a, b) ==
    a.axis = b.axis /\ a.start_depth = b.start_depth /\ a.end_depth = b.end_depth

\* One move pushed onto an already canonical prefix: it merges with a last
\* move of the same layers, and the pair disappears when it cancels.
CanonPush(out, mv) ==
    IF Len(out) > 0 /\ SameLayers(out[Len(out)], mv)
    THEN LET n == (QuarterTurns(out[Len(out)].rotation_type)
                     + QuarterTurns(mv.rotation_type)) % 4
             front == SubSeq(out, 1, Len(out) - 1)
         IN  IF n = 0 THEN front
             ELSE Append(front, MkMove(mv.axis, RotationOfTurns(n),
                                       mv.start_depth, mv.end_depth))
    ELSE Append(out, mv)

RECURSIVE CanonLoop(_, _, _)
CanonLoop(moves, i, out) ==
    IF i > Len(moves) THEN out
    ELSE LET o == CanonPush(out, moves[i])
         IN  IF o = o THEN CanonLoop(moves, i + 1, o) ELSE o

\* MoveSequence::canonicalise
Canonicalise(moves) == CanonLoop(moves, 1, <<>>)

AxisRank(a) == CASE a = "FB" -> 0 [] a = "RL" -> 1 [] a = "UD" -> 2

RotationRank(rt) == CASE rt = "Normal" -> 0 [] rt = "Double" -> 1 [] rt = "Inverse" -> 2

\* The field-wise comparison of two moves: -1, 0 or 1.
MoveCmp(a, b) ==
    CASE AxisRank(a.axis) # AxisRank(b.axis) ->
            IF AxisRank(a.axis) < AxisRank(b.axis) THEN -1 ELSE 1
      [] RotationRank(a.rotation_type) # RotationRank(b.rotation_type) ->
            IF RotationRank(a.rotation_type) < RotationRank(b.rotation_type) THEN -1 ELSE 1
      [] a.start_depth # b.start_depth -> IF a.start_depth < b.start_depth THEN -1 ELSE 1
      [] a.end_depth # b.end_depth -> IF a.end_depth < b.end_depth THEN -1 ELSE 1
      [] OTHER -> 0

\* Lexicographic order of move sequences (a proper prefix comes first).
SeqLess(a, b) ==
    \E i \in 1..(Len(b)) :
        /\ \A j \in 1..(i - 1) : j <= Len(a) /\ MoveCmp(a[j], b[j]) = 0
        /\ \/ i = Len(a) + 1
           \/ i <= Len(a) /\ MoveCmp(a[i], b[i]) = -1

\* sort() followed by dedup(): the elements of a set in increasing order.
SortedDedup(S) ==
    [i \in 1..Cardinality(S) |->
        CHOOSE x \in S : Cardinality({y \in S : SeqLess(y, x)}) = i - 1]

(***************************************************************************)
(* intuitive.rs: signatures, SequenceGraph and SequenceSolver.             *)
(***************************************************************************)
\* The signature closures of intuitive.rs and roux.rs, as data: sig.kind
\* names the closure, sig.edge and sig.corner the tracked cubelets.
Signature(sig, cube) ==
    CASE sig.kind = "edge" -> EdgeAct(cube.edges, <<sig.edge, 0>>)
      [] sig.kind = "pair" ->
            <<EdgeAct(cube.edges, <<sig.edge, 0>>),
              CornerAct(cube.corners, <<sig.corner, 0>>)>>
      [] sig.kind = "cmll" ->
            <<CornerAct(cube.corners, <<"FUL", 0>>), CornerAct(cube.corners, <<"FUR", 0>>),
              CornerAct(cube.corners, <<"BUR", 0>>), CornerAct(cube.corners, <<"BUL", 0>>)>>
      [] sig.kind = "eo" ->
            <<<<EdgeUnact(cube.edges, <<"UF", 0>>)[2], EdgeUnact(cube.edges, <<"UB", 0>>)[2],
                EdgeUnact(cube.edges, <<"DB", 0>>)[2], EdgeUnact(cube.edges, <<"DF", 0>>)[2],
                EdgeUnact(cube.edges, <<"UL", 0>>)[2], EdgeUnact(cube.edges, <<"UR", 0>>)[2]>>,
              CentreAct(cube.centres, "U") \in {"F", "B"}>>
      [] sig.kind = "lr" ->
            <<<<EdgeAct(cube.edges, <<"UL", 0>>)[1], EdgeAct(cube.edges, <<"UR", 0>>)[1]>>,
              CornerAct(cube.corners, <<"FUL", 0>>)[1]>>
      [] sig.kind = "l4e" ->
            <<<<EdgeAct(cube.edges, <<"UF", 0>>)[1], EdgeAct(cube.edges, <<"UB", 0>>)[1],
                EdgeAct(cube.edges, <<"DB", 0>>)[1], EdgeAct(cube.edges, <<"DF", 0>>)[1]>>,
              CentreAct(cube.centres, "F")>>

\* The metric every solver of the repository passes: seq.moves.len()
Metric(seq) == Len(seq)

\* A normalisation that expands the generators of one move alone.
RealGenSetSingleMovesOnly(gen_set) ==
    SortedDedup({Canonicalise(m) :
                    m \in UNION {IF Len(gen_set[i]) = 1
                                 THEN {SeqInverse(gen_set[i]), SeqOp(gen_set[i], gen_set[i]),
                                       gen_set[i]}
                                 ELSE {gen_set[i]} : i \in 1..Len(gen_set)}} \ {<<>>})

\* SequenceGraph::new, lines 55-63: inverse, double and self of each
\* generator, canonicalised, the empty ones dropped, sorted, deduplicated.
RealGenSet(gen_set) ==
    SortedDedup({Canonicalise(m) :
                    m \in UNION {{SeqInverse(gen_set[i]), SeqOp(gen_set[i], gen_set[i]), gen_set[i]} :
                                    i \in 1..Len(gen_set)}} \ {<<>>})

\* The state SequenceGraph::new starts explore from: an empty graph and the
\* one pending call explore(identity).  nodes lists the keys in the order
\* they were inserted.
GraphEmpty == [graph |-> <<>>, nodes |-> <<>>, pending |-> <<CubeIdentity>>]

\* A composition on the wrong side: the generator applied before the cube's
\* own permutation instead of after it.
NewPermutationSwapped(seq_perm, permutation) == CubeOp(permutation, seq_perm)

\* explore, line 87: seq_perm.op(permutation)
NewPermutation(seq_perm, permutation) == CubeOp(seq_perm, permutation)

\* A test that keeps every generator, also one that leaves the signature
\* as it is.
LeavesSignatureAlways(new_signature, current_signature) == TRUE

\* explore, line 90: new_signature != current_signature
LeavesSignature(new_signature, current_signature) == new_signature # current_signature

\* One call of SequenceGraph::explore: the call on top of pending runs its
\* body, and the recursive calls it makes are pushed in their order.
\* seq_perm[i] is from_move_sequence(real_gen_set[i]).
Explore(real_gen_set, seq_perm, sig, st) ==
    LET permutation == Head(st.pending)
        current_signature == Signature(sig, permutation)
    IN  IF current_signature \in DOMAIN st.graph
        THEN [st EXCEPT !.pending = Tail(@)]
        ELSE
          LET n == Len(real_gen_set)
              new_permutation ==
                  Strict([i \in 1..n |-> Strict(NewPermutation(seq_perm[i], permutation))])
              new_signature == Strict([i \in 1..n |-> Signature(sig, new_permutation[i])])
              kept == SelectSeq([i \in 1..n |-> i],
                                LAMBDA i : LeavesSignature(new_signature[i], current_signature))
              transitions ==
                  Strict([seq \in {real_gen_set[kept[j]] : j \in 1..Len(kept)} |->
                      new_signature[CHOOSE i \in 1..n : real_gen_set[i] = seq]])
          IN  [graph   |-> st.graph @@ (current_signature :> transitions),
               nodes   |-> Append(st.nodes, current_signature),
               pending |-> [j \in 1..Len(kept) |-> new_permutation[kept[j]]]
                              \o Tail(st.pending)]

SeqPerms(real_gen_set) ==
    Strict([i \in 1..Len(real_gen_set) |-> FromMoveSequence(real_gen_set[i])])

\* std::u64::MAX, narrowed to the largest integer the model checker holds; every
\* metric of the model is far below it.
U64_MAX == 2147483647

None == [some |-> FALSE]

Some(v) == [some |-> TRUE, value |-> v]

\* SequenceGraph::search, lines 118-139, up to the loop.  A map is a
\* function to Option values: None where the map has no entry.
\* change_priority on a key that is not queued changes nothing; the insert
\* into unvisited_move_sequences happens in every case.
SearchStart(graph, target_signature) ==
    LET keys == DOMAIN graph \cup {target_signature}
    IN  [unvisited_queue |->
            Strict([s \in DOMAIN graph |->
                      IF s = target_signature THEN Some(U64_MAX) ELSE Some(0)]),
         unvisited_move_sequences |->
            Strict([s \in keys |-> IF s = target_signature THEN Some(<<>>) ELSE None]),
         node_info |-> Strict([s \in keys |-> None]),
         outcome |-> "running"]

\* PriorityQueue::pop: an entry of the greatest priority.  Among equals the
\* queue's internal order decides; keys is that order.
QueuePop(unvisited_queue, keys) ==
    LET priorities == {-unvisited_queue[s].value :
                          s \in {k \in DOMAIN unvisited_queue : unvisited_queue[k].some}}
        best == -(CHOOSE v \in priorities : \A w \in priorities : v <= w)
        first == CHOOSE i \in 1..Len(keys) :
                    unvisited_queue[keys[i]] = Some(best)
    IN  keys[first]

\* A relaxation that takes no tentative route at all.
ImprovesNever(tentative_priority, existing_priority) == FALSE

\* A relaxation that takes every tentative route, better or not.
ImprovesUnchecked(tentative_priority, existing_priority) == TRUE

\* search, line 164: the test that a tentative route is a better one
Improves(tentative_priority, existing_priority) ==
    tentative_priority > existing_priority

\* A table that keeps the sequence from the target to the node as it is.
NodeInfoEntryNotInverted(move_sequence) == move_sequence

\* search, line 147: what node_info stores for the popped node
NodeInfoEntry(move_sequence) == SeqInverse(move_sequence)

\* The loop over the transitions of the popped node, lines 150-170, in the
\* order iteration yields them.
RECURSIVE Relax(_, _, _, _, _)
Relax(transitions, order, i, move_sequence, st) ==
    IF i > Len(order) THEN st
    ELSE
      LET transition_sequence == order[i]
          new_signature == transitions[transition_sequence]
          existing == st.unvisited_queue[new_signature]
          tentative_move_sequence == move_sequence \o transition_sequence
          tentative_metric == Metric(tentative_move_sequence)
          tentative_priority == U64_MAX - tentative_metric
          next == IF existing.some /\ Improves(tentative_priority, existing.value)
                  THEN [st EXCEPT
                          !.unvisited_queue[new_signature] = Some(tentative_priority),
                          !.unvisited_move_sequences[new_signature] =
                              Some(tentative_move_sequence)]
                  ELSE st
      IN  IF next = next THEN Relax(transitions, order, i + 1, move_sequence, next)
          ELSE next

\* One round of the while loop of SequenceGraph::search, lines 141-171.
\* keys is the queue's order among equal priorities, gens the order in which
\* a transition map iterates.  The expect on line 145 panics when the popped
\* node has no move sequence.
SearchPop(graph, keys, gens, st) ==
    IF \A s \in DOMAIN st.unvisited_queue : ~st.unvisited_queue[s].some
    THEN [st EXCEPT !.outcome = "returned"]
    ELSE
      LET signature == QueuePop(st.unvisited_queue, keys)
          popped == [st EXCEPT !.unvisited_queue[signature] = None]
          removed == st.unvisited_move_sequences[signature]
      IN  IF ~removed.some
          THEN [popped EXCEPT !.outcome = "panicked"]
          ELSE
            LET move_sequence == removed.value
                transitions == graph[signature]
                order == SelectSeq(gens, LAMBDA g : g \in DOMAIN transitions)
            IN  Relax(transitions, order, 1, move_sequence,
                      [popped EXCEPT
                          !.unvisited_move_sequences[signature] = None,
                          !.node_info[signature] = Some(Strict(NodeInfoEntry(move_sequence)))])

\* SequenceSolver::solve and AlgorithmicSolver::solve: node_info.get
SolverSolve(node_info, signature) ==
    IF signature \in DOMAIN node_info THEN node_info[signature] ELSE None

(***************************************************************************)
(* SequenceGraph::new and SequenceGraph::search run to completion: the     *)
(* steps above, repeated until the call stack or the queue is empty.       *)
(***************************************************************************)
RECURSIVE ExploreRun(_, _, _, _, _)
ExploreRun(real_gen_set, seq_perm, sig, n, st) ==
    IF st.pending = <<>> THEN st
    ELSE IF n = 1 THEN Explore(real_gen_set, seq_perm, sig, st)
    ELSE LET half == ExploreRun(real_gen_set, seq_perm, sig, n \div 2, st)
         IN  ExploreRun(real_gen_set, seq_perm, sig, n - (n \div 2), half)

RECURSIVE SearchRun(_, _, _, _, _)
SearchRun(graph, keys, gens, n, st) ==
    IF st.outcome # "running" THEN st
    ELSE IF n = 1 THEN SearchPop(graph, keys, gens, st)
    ELSE LET half == SearchRun(graph, keys, gens, n \div 2, st)
         IN  SearchRun(graph, keys, gens, n - (n \div 2), half)

\* A lazy_static solver of intuitive.rs or roux.rs: the graph of the
\* generating set, searched from the target, its maps iterating in the
\* order of insertion.
SequenceSolverOf(gen_set, sig, target_signature) ==
    LET real_gen_set == RealGenSet(gen_set)
        built == ExploreRun(real_gen_set, SeqPerms(real_gen_set), sig, 32768, GraphEmpty)
    IN  SearchRun(built.graph, built.nodes, real_gen_set, 4096,
                  SearchStart(built.graph, target_signature)).node_info

(***************************************************************************)
(* algorithmic.rs: AlgorithmicSolver.                                      *)
(***************************************************************************)
\* AlgorithmicSolver::new, lines 44-62: the pre (or post) moves with their
\* inverses and doubles, canonicalised, and the empty sequence.
RealPreMoves(pre_moves) ==
    SortedDedup({Canonicalise(m) :
                    m \in UNION {{SeqInverse(pre_moves[i]), SeqOp(pre_moves[i], pre_moves[i]),
                                  pre_moves[i]} : i \in 1..Len(pre_moves)}} \cup {<<>>})

CheaperReversed(new_metric, previous_metric) == new_metric > previous_metric

\* line 74: an occupied entry is replaced by a strictly cheaper sequence.
Cheaper(new_metric, previous_metric) == new_metric < previous_metric

MovesNoPreNotInverted(moves_no_pre) == moves_no_pre

\* line 68: the sequence stored for a signature undoes the algorithm and
\* the post move, and leaves the pre move in place.
MovesNoPreInverse(moves_no_pre) == SeqInverse(moves_no_pre)

\* The body of the innermost loop, lines 67-84, on the map built so far.
AlgInsert(alg, pre_move, post_move, sig, node_info) ==
    LET moves_no_pre == SeqOp(post_move, alg)
        moves_no_pre_inverse == Strict(MovesNoPreInverse(moves_no_pre))
        moves == SeqOp(moves_no_pre, pre_move)
        s == Signature(sig, FromMoveSequence(moves))
    IN  IF s \in DOMAIN node_info
        THEN IF Cheaper(Metric(moves_no_pre_inverse), Metric(node_info[s].value))
             THEN [node_info EXCEPT ![s] = Some(moves_no_pre_inverse)]
             ELSE node_info
        ELSE (s :> Some(moves_no_pre_inverse)) @@ node_info

\* One round of the three nested loops: st.round counts the rounds done,
\* the innermost loop (post moves) running fastest.
AlgStep(alg_set, real_pre_moves, real_post_moves, sig, st) ==
    LET np == Len(real_pre_moves)
        nq == Len(real_post_moves)
        k == st.round
    IN  [round |-> k + 1,
         node_info |-> AlgInsert(alg_set[(k \div (np * nq)) + 1],
                                 real_pre_moves[((k \div nq) % np) + 1],
                                 real_post_moves[(k % nq) + 1], sig, st.node_info)]

AlgRounds(alg_set, real_pre_moves, real_post_moves) ==
    Len(alg_set) * Len(real_pre_moves) * Len(real_post_moves)

RECURSIVE AlgRun(_, _, _, _, _, _)
AlgRun(alg_set, real_pre_moves, real_post_moves, sig, n, st) ==
    IF st.round = AlgRounds(alg_set, real_pre_moves, real_post_moves) THEN st
    ELSE IF n = 1 THEN AlgStep(alg_set, real_pre_moves, real_post_moves, sig, st)
    ELSE LET half == AlgRun(alg_set, real_pre_moves, real_post_moves, sig, n \div 2, st)
         IN  AlgRun(alg_set, real_pre_moves, real_post_moves, sig, n - (n \div 2), half)

\* AlgorithmicSolver::new
AlgorithmicSolverNew(alg_set, pre_moves, post_moves, sig) ==
    AlgRun(alg_set, RealPreMoves(pre_moves), RealPreMoves(post_moves), sig, 4096,
           [round |-> 0, node_info |-> <<>>]).node_info

(***************************************************************************)
(* roux.rs: the lazy_static solvers.                                       *)
(***************************************************************************)
\* "...".parse::<MoveSequence>().unwrap() over a vec of strings
ParseAll(strings) == [i \in 1..Len(strings) |-> ParseSequence(strings[i]).value]

\* The generating sets, signatures and targets of the nine SequenceSolvers.
RouxGraphs ==
    [
     first_edge |-> [gen_set |-> <<<<<<"F">>>>,
          <<<<"R">>>>,
          <<<<"U">>>>,
          <<<<"B">>>>,
          <<<<"L">>>>,
          <<<<"D">>>>,
          <<<<"M">>>>>>,
        sig |-> [kind |-> "edge", edge |-> "DL"],
        target |-> <<"DL", 0>>],
     first_pair |-> [gen_set |-> <<<<<<"F">>>>,
          <<<<"R">>>>,
          <<<<"U">>>>,
          <<<<"B">>>>,
          <<<<"M">>>>>>,
        sig |-> [kind |-> "pair", edge |-> "FL", corner |-> "FDL"],
        target |-> <<<<"FL", 0>>, <<"FDL", 0>>>>],
     second_pair |-> [gen_set |-> <<<<<<"R">>>>,
          <<<<"U">>>>,
          <<<<"B">>>>,
          <<<<"M">>>>>>,
        sig |-> [kind |-> "pair", edge |-> "BL", corner |-> "BDL"],
        target |-> <<<<"BL", 0>>, <<"BDL", 0>>>>],
     second_edge |-> [gen_set |-> <<<<<<"R">>>>,
          <<<<"U">>>>,
          <<<<"M">>>>>>,
        sig |-> [kind |-> "edge", edge |-> "DR"],
        target |-> <<"DR", 0>>],
     third_pair |-> [gen_set |-> <<<<<<"U">>>>,
          <<<<"M">>>>,
          <<<<"R">>, <<"U">>, <<"R", "'">>>>,
          <<<<"R">>, <<"U", "2">>, <<"R", "'">>>>,
          <<<<"R">>, <<"U", "'">>, <<"R", "'">>>>,
          <<<<"R", "'">>, <<"U">>, <<"R">>>>,
          <<<<"R", "'">>, <<"U", "2">>, <<"R">>>>,
          <<<<"R", "'">>, <<"U", "'">>, <<"R">>>>>>,
        sig |-> [kind |-> "pair", edge |-> "FR", corner |-> "FDR"],
        target |-> <<<<"FR", 0>>, <<"FDR", 0>>>>],
     fourth_pair |-> [gen_set |-> <<<<<<"U">>>>,
          <<<<"M">>>>,
          <<<<"R", "'">>, <<"U">>, <<"R">>>>,
          <<<<"R", "'">>, <<"U", "2">>, <<"R">>>>,
          <<<<"R", "'">>, <<"U", "'">>, <<"R">>>>>>,
        sig |-> [kind |-> "pair", edge |-> "BR", corner |-> "BDR"],
        target |-> <<<<"BR", 0>>, <<"BDR", 0>>>>],
     eo |-> [gen_set |-> <<<<<<"U">>>>,
          <<<<"M">>>>>>,
        sig |-> [kind |-> "eo"],
        target |-> <<<<0, 0, 0, 0, 0, 0>>, FALSE>>],
     lr |-> [gen_set |-> <<<<<<"U">>>>,
          <<<<"M", "2">>>>,
          <<<<"M">>, <<"U", "2">>, <<"M">>>>,
          <<<<"M">>, <<"U", "2">>, <<"M", "'">>>>,
          <<<<"M", "'">>, <<"U", "2">>, <<"M", "'">>>>,
          <<<<"M", "'">>, <<"U", "2">>, <<"M">>>>>>,
        sig |-> [kind |-> "lr"],
        target |-> <<<<"UL", "UR">>, "FUL">>],
     l4e |-> [gen_set |-> <<<<<<"M">>>>,
          <<<<"U", "2">>>>,
          <<<<"E", "2">>, <<"M", "'">>, <<"E", "2">>>>,
          <<<<"E", "2">>, <<"M">>, <<"E", "2">>>>>>,
        sig |-> [kind |-> "l4e"],
        target |-> <<<<"UF", "UB", "DB", "DF">>, "F">>]]

\* Kian's CMLL algs, as roux.rs lists them.
CmllAlgSet ==
    <<<<<<"R">>, <<"U">>, <<"R", "'">>, <<"F", "'">>, <<"R">>, <<"U">>, <<"R", "'">>, <<"U", "'">>, <<"R", "'">>, <<"F">>, <<"R", "2">>, <<"U", "'">>, <<"R", "'">>>>,
      <<<<"F">>, <<"R">>, <<"U", "'">>, <<"R", "'">>, <<"U", "'">>, <<"R">>, <<"U">>, <<"R", "'">>, <<"F", "'">>, <<"R">>, <<"U">>, <<"R", "'">>, <<"U", "'">>, <<"R", "'">>, <<"F">>, <<"R">>, <<"F", "'">>>>,
      <<<<"R">>, <<"U", "2">>, <<"R", "'">>, <<"U", "'">>, <<"R">>, <<"U">>, <<"R", "'">>, <<"U", "'">>, <<"R">>, <<"U", "'">>, <<"R", "'">>>>,
      <<<<"F">>, <<"R">>, <<"U">>, <<"R", "'">>, <<"U", "'">>, <<"R">>, <<"U">>, <<"R", "'">>, <<"U", "'">>, <<"R">>, <<"U">>, <<"R", "'">>, <<"U", "'">>, <<"F", "'">>>>,
      <<<<"R">>, <<"U", "2", "'">>, <<"R", "2", "'">>, <<"F">>, <<"R">>, <<"F", "'">>, <<"U", "2">>, <<"R", "'">>, <<"F">>, <<"R">>, <<"F", "'">>>>,
      <<<<"r">>, <<"U", "'">>, <<"r", "2", "'">>, <<"D", "'">>, <<"r">>, <<"U", "'">>, <<"r", "'">>, <<"D">>, <<"r", "2">>, <<"U">>, <<"r", "'">>>>,
      <<<<"F">>, <<"R">>, <<"U">>, <<"R", "'">>, <<"U", "'">>, <<"R">>, <<"U">>, <<"R", "'">>, <<"U", "'">>, <<"F", "'">>>>,
      <<<<"F">>, <<"R", "'">>, <<"F", "'">>, <<"R">>, <<"U", "2">>, <<"R">>, <<"U", "'">>, <<"R", "'">>, <<"U">>, <<"R">>, <<"U", "2", "'">>, <<"R", "'">>>>,
      <<<<"R", "'">>, <<"F">>, <<"R">>, <<"U">>, <<"F">>, <<"U", "'">>, <<"R">>, <<"U">>, <<"R", "'">>, <<"U", "'">>, <<"F", "'">>>>,
      <<<<"R">>, <<"U", "2">>, <<"R", "'">>, <<"U", "'">>, <<"R">>, <<"U">>, <<"R", "'">>, <<"U", "2", "'">>, <<"R", "'">>, <<"F">>, <<"R">>, <<"F", "'">>>>,
      <<<<"r">>, <<"U", "'">>, <<"r", "2", "'">>, <<"D", "'">>, <<"r">>, <<"U">>, <<"r", "'">>, <<"D">>, <<"r", "2">>, <<"U">>, <<"r", "'">>>>,
      <<<<"R", "'">>, <<"U", "'">>, <<"R", "'">>, <<"F">>, <<"R">>, <<"F", "'">>, <<"R">>, <<"U", "'">>, <<"R", "'">>, <<"U", "2">>, <<"R">>>>,
      <<<<"R", "2">>, <<"D">>, <<"R", "'">>, <<"U", "2">>, <<"R">>, <<"D", "'">>, <<"R", "'">>, <<"U", "2">>, <<"R", "'">>>>,
      <<<<"R", "2", "'">>, <<"D", "'">>, <<"R">>, <<"U", "2">>, <<"R", "'">>, <<"D">>, <<"R">>, <<"U", "2">>, <<"R">>>>,
      <<<<"R", "2", "'">>, <<"F">>, <<"U", "'">>, <<"F">>, <<"U">>, <<"F", "2">>, <<"R", "2">>, <<"U", "'">>, <<"R", "'">>, <<"F">>, <<"R">>>>,
      <<<<"F">>, <<"R", "2">>, <<"D">>, <<"R", "'">>, <<"U">>, <<"R">>, <<"D", "'">>, <<"R", "2", "'">>, <<"U", "'">>, <<"F", "'">>>>,
      <<<<"r">>, <<"U", "'">>, <<"r", "'">>, <<"U">>, <<"r", "'">>, <<"D", "'">>, <<"r">>, <<"U", "'">>, <<"r", "'">>, <<"D">>, <<"r">>>>,
      <<<<"F">>, <<"R">>, <<"U">>, <<"R", "'">>, <<"U", "'">>, <<"F", "'">>>>,
      <<<<"R">>, <<"U">>, <<"R", "'">>, <<"U", "'">>, <<"R", "'">>, <<"F">>, <<"R">>, <<"F", "'">>>>,
      <<<<"L", "'">>, <<"U", "'">>, <<"L">>, <<"U">>, <<"L">>, <<"F", "'">>, <<"L", "'">>, <<"F">>>>,
      <<<<"F">>, <<"R", "'">>, <<"F">>, <<"R", "2">>, <<"U", "'">>, <<"R", "'">>, <<"U", "'">>, <<"R">>, <<"U">>, <<"R", "'">>, <<"F", "2">>>>,
      <<<<"r", "'">>, <<"U">>, <<"r">>, <<"U", "2", "'">>, <<"R", "2", "'">>, <<"F">>, <<"R">>, <<"F", "'">>, <<"R">>>>,
      <<<<"r", "'">>, <<"D", "'">>, <<"r">>, <<"U">>, <<"r", "'">>, <<"D">>, <<"r">>, <<"U", "'">>, <<"r">>, <<"U">>, <<"r", "'">>>>,
      <<<<"r", "2", "'">>, <<"D", "'">>, <<"r">>, <<"U">>, <<"r", "'">>, <<"D">>, <<"r", "2">>, <<"U", "'">>, <<"r", "'">>, <<"U", "'">>, <<"r">>>>,
      <<<<"R">>, <<"U">>, <<"R", "'">>, <<"U">>, <<"R">>, <<"U", "2">>, <<"R", "'">>>>,
      <<<<"L", "'">>, <<"U", "2">>, <<"L">>, <<"U", "2", "'">>, <<"L">>, <<"F", "'">>, <<"L", "'">>, <<"F">>>>,
      <<<<"F">>, <<"R", "'">>, <<"F", "'">>, <<"R">>, <<"U", "2">>, <<"R">>, <<"U", "2", "'">>, <<"R", "'">>>>,
      <<<<"R">>, <<"U">>, <<"R", "'">>, <<"U", "'">>, <<"R", "'">>, <<"F">>, <<"R">>, <<"F", "'">>, <<"R">>, <<"U">>, <<"R", "'">>, <<"U">>, <<"R">>, <<"U", "2", "'">>, <<"R", "'">>>>,
      <<<<"R">>, <<"U">>, <<"R", "'">>, <<"U">>, <<"R", "'">>, <<"F">>, <<"R">>, <<"F", "'">>, <<"R">>, <<"U", "2", "'">>, <<"R", "'">>>>,
      <<<<"R">>, <<"U", "'">>, <<"L", "'">>, <<"U">>, <<"R", "'">>, <<"U", "'">>, <<"L">>>>,
      <<<<"R", "'">>, <<"U", "'">>, <<"R">>, <<"U", "'">>, <<"R", "'">>, <<"U", "2", "'">>, <<"R">>>>,
      <<<<"R", "2">>, <<"D">>, <<"R", "'">>, <<"U">>, <<"R">>, <<"D", "'">>, <<"R", "'">>, <<"U">>, <<"R", "'">>, <<"U", "'">>, <<"R">>, <<"U", "'">>, <<"R", "'">>>>,
      <<<<"F", "'">>, <<"L">>, <<"F">>, <<"L", "'">>, <<"U", "2", "'">>, <<"L", "'">>, <<"U", "2">>, <<"L">>>>,
      <<<<"R">>, <<"U", "2", "'">>, <<"R", "'">>, <<"U", "2">>, <<"R", "'">>, <<"F">>, <<"R">>, <<"F", "'">>>>,
      <<<<"L", "'">>, <<"U">>, <<"R">>, <<"U", "'">>, <<"L">>, <<"U">>, <<"R", "'">>>>,
      <<<<"R", "'">>, <<"U", "'">>, <<"R">>, <<"U", "'">>, <<"R", "'">>, <<"U">>, <<"R", "'">>, <<"F">>, <<"R">>, <<"F", "'">>, <<"U">>, <<"R">>>>>>

CmllSolver ==
    AlgorithmicSolverNew(ParseAll(CmllAlgSet), ParseAll(<<<<<<"U">>>>>>),
                         ParseAll(<<<<<<"U">>>>>>), [kind |-> "cmll"])

RouxSolverOf(name) ==
    SequenceSolverOf(ParseAll(RouxGraphs[name].gen_set), RouxGraphs[name].sig,
                     RouxGraphs[name].target)

(***************************************************************************)
(* roux.rs: the step functions and the driver.                             *)
(***************************************************************************)
\* The ten add_step calls of roux::solve, in their order.
StepNames ==
    <<"first_edge", "first_pair", "second_pair", "second_edge", "third_pair",
      "fourth_pair", "cmll", "eo", "lr", "l4e">>

\* first_edge .. l4e: the solver of the step asked for the signature of
\* the permutation.  cmll drops a trailing move on the UD axis.
RouxStep(tables, name, permutation) ==
    IF name = "cmll"
    THEN LET found == SolverSolve(tables.cmll, Signature([kind |-> "cmll"], permutation))
         IN  IF found.some /\ Len(found.value) > 0 /\ found.value[Len(found.value)].axis = "UD"
             THEN Some(SubSeq(found.value, 1, Len(found.value) - 1))
             ELSE found
    ELSE SolverSolve(tables[name], Signature(RouxGraphs[name].sig, permutation))

\* ActionSteps::move_sequence of a Sequence of step actions, each a
\* Sequence of single moves: the moves of all steps, flattened.
RECURSIVE ActionMoveSequence(_)
ActionMoveSequence(actions) ==
    IF actions = <<>> THEN <<>>
    ELSE Head(actions).moves \o ActionMoveSequence(Tail(actions))

(***************************************************************************)
(* State.                                                                  *)
(***************************************************************************)
VARIABLES
    seqs,          \* algebra: three move sequences being parsed token by token
    perms,         \* algebra: from_move_sequence of each of them
    token,         \* parser: the string handed to Move::from_str
    parsed,        \* parser: what from_str returned
    gen_input,     \* solver: the generating set and signature given to new
    explore,       \* solver: graph, nodes and pending calls of explore
    search,        \* solver: the locals of search
    target,        \* solver: the target signature given to search
    hash_order,    \* solver: the order in which this run's maps iterate
    cube,          \* solver: a cube state the built solver is asked about
    answer,        \* solver: what SequenceSolver::solve returned for it
    tables,        \* roux: the lazy_static solvers
    scramble,      \* roux: the move sequence that scrambled the cube
    permutation,   \* roux: the local permutation of solve
    steps,         \* roux: the local steps of solve
    calls,         \* roux: how many add_step calls have been made
    result,        \* roux: what solve returned
    alg_input,     \* algorithmic: the algorithms given to AlgorithmicSolver::new
    alg_state,     \* algorithmic: rounds done and node_info of new
    alg_cube,      \* algorithmic: a cube state the built solver is asked about
    alg_answer,    \* algorithmic: what AlgorithmicSolver::solve returned for it
    turns,         \* order: the tokens of the sequence being folded
    component,     \* order: which group of the cube order is called on
    operation,     \* order: the local g of from_move_sequence
    power,         \* order: the local x of Group::order
    count,         \* order: the local i of Group::order
    order_result,  \* order: what Group::order returned
    facelets,      \* facelets: the Cube<3> that perform is called on
    performed,     \* facelets: the Moves performed on it so far
    blockbuilder,  \* blockbuilding: gen_set and graph of the IntuitiveBlockbuilder
    query,         \* blockbuilding: max_moves and condition given to search
    solutions      \* blockbuilding: what search returned

algebraVars == <<seqs, perms>>

parserVars == <<token, parsed>>

solverVars == <<gen_input, explore, search, target, hash_order, cube, answer>>

rouxVars == <<tables, scramble, permutation, steps, calls, result>>

algVars == <<alg_input, alg_state, alg_cube, alg_answer>>

orderVars == <<turns, component, operation, power, count, order_result>>

faceletVars == <<facelets, performed>>

blockVars == <<blockbuilder, query, solutions>>

vars == <<algebraVars, parserVars, solverVars, rouxVars, algVars, orderVars, faceletVars, blockVars>>

Idle == "idle"

AlgebraIdle == seqs = Idle /\ perms = Idle

ParserIdle == token = Idle /\ parsed = Idle

SolverIdle ==
    /\ gen_input = Idle /\ explore = Idle /\ search = Idle /\ target = Idle
    /\ hash_order = Idle /\ cube = Idle /\ answer = Idle

RouxIdle ==
    /\ tables = Idle /\ scramble = Idle /\ permutation = Idle /\ steps = Idle
    /\ calls = Idle /\ result = Idle

AlgIdle ==
    /\ alg_input = Idle /\ alg_state = Idle /\ alg_cube = Idle /\ alg_answer = Idle

OrderIdle ==
    /\ turns = Idle /\ component = Idle /\ operation = Idle
    /\ power = Idle /\ count = Idle /\ order_result = Idle

FaceletIdle == facelets = Idle /\ performed = Idle

BlockIdle == blockbuilder = Idle /\ query = Idle /\ solutions = Idle

(***************************************************************************)
(* The algebra: sequences parsed token by token and turned into            *)
(* permutations.                                                           *)
(***************************************************************************)
MaxTokens == 3

AlgebraTokens == {<<"R">>, <<"F">>, <<"U", "'">>, <<"M", "2">>}

AlgebraInit ==
    /\ seqs = [i \in 1..3 |-> <<>>]
    /\ perms = [i \in 1..3 |-> CubeIdentity]
    /\ ParserIdle /\ SolverIdle /\ RouxIdle /\ AlgIdle /\ OrderIdle /\ FaceletIdle /\ BlockIdle

\* One round of the loop of MoveSequence::from_str on the i-th sequence,
\* followed by from_move_sequence of what has been parsed.
ParsePush(i, t) ==
    /\ Len(seqs[1]) + Len(seqs[2]) + Len(seqs[3]) < MaxTokens
    /\ ~ParseMove(t).err
    /\ seqs' = [seqs EXCEPT ![i] = Append(@, ParseMove(t).value)]
    /\ perms' = [perms EXCEPT ![i] = FromMoveSequence(seqs'[i])]
    /\ UNCHANGED <<parserVars, solverVars, rouxVars, algVars, orderVars, faceletVars, blockVars>>

AlgebraNext == \E i \in 1..3, t \in AlgebraTokens : ParsePush(i, t)

SpecAlgebra == AlgebraInit /\ [][AlgebraNext]_vars

(***************************************************************************)
(* The parser: one token handed to Move::from_str.                         *)
(***************************************************************************)
MaxTokenLen == 3

TokenChars ==
    {"F", "R", "U", "B", "L", "D", "M", "E", "S", "f", "r", "u", "b", "l", "d",
     "m", "x", "w", "2", "'"}

TokenStrings == UNION {[1..n -> TokenChars] : n \in 0..MaxTokenLen}

ParserInit ==
    /\ token \in TokenStrings
    /\ parsed = None
    /\ AlgebraIdle /\ SolverIdle /\ RouxIdle /\ AlgIdle /\ OrderIdle /\ FaceletIdle /\ BlockIdle

Parse ==
    /\ parsed = None
    /\ parsed' = Some(ParseMove(token))
    /\ UNCHANGED <<token, algebraVars, solverVars, rouxVars, algVars, orderVars, faceletVars, blockVars>>

ParserNext == Parse

SpecParser == ParserInit /\ [][ParserNext]_vars

(***************************************************************************)
(* The solver: SequenceGraph::new, then search from a target, then         *)
(* SequenceSolver::solve asked about scrambled cubes.                      *)
(***************************************************************************)
MaxScramble == 2

\* The generating sets the graphs are built from: three of the lazy_static
\* solvers, one with generators of several moves.
SolverInputs == {"first_edge", "second_edge", "lr"}

\* Target signatures handed to search: the one the repository passes,
\* another one, and (but for first_edge, whose graph has every signature of
\* the type) one that is no node of the graph.
SolverTargets(name) ==
    IF name = "lr"
    THEN {<<<<"UL", "UR">>, "FUL">>, <<<<"UB", "UF">>, "FUL">>, <<<<"UL", "UR">>, "FDL">>}
    ELSE {<<"DL", 0>>, <<"DR", 0>>, <<"UF", 1>>}

ScrambleTokens == {<<"R">>, <<"U">>, <<"M">>, <<"F", "'">>, <<"L", "2">>, <<"D">>}

\* The orders in which the maps of one run may iterate: here the order of
\* insertion, or its reverse.
HashOrders == {"forward", "reverse"}

Reversed(s) == [i \in 1..Len(s) |-> s[Len(s) + 1 - i]]

IterationOrder(h, s) == IF h = "forward" THEN s ELSE Reversed(s)

InputGenSet(name) == RealGenSet(ParseAll(RouxGraphs[name].gen_set))

InputSignature(name, perm) == Signature(RouxGraphs[name].sig, perm)

SolverInit ==
    /\ gen_input \in SolverInputs
    /\ explore = GraphEmpty
    /\ search = [outcome |-> "idle"]
    /\ target = None
    /\ hash_order = "unset"
    /\ cube = [scramble |-> <<>>, permutation |-> CubeIdentity]
    /\ answer = None
    /\ AlgebraIdle /\ ParserIdle /\ RouxIdle /\ AlgIdle /\ OrderIdle /\ FaceletIdle /\ BlockIdle

\* SequenceGraph::new: explore(identity) and all the calls it makes.
New ==
    /\ explore.pending # <<>>
    /\ LET real_gen_set == InputGenSet(gen_input)
       IN  explore' = ExploreRun(real_gen_set, SeqPerms(real_gen_set),
                                 RouxGraphs[gen_input].sig, 32768, explore)
    /\ UNCHANGED <<gen_input, search, target, hash_order, cube, answer>>
    /\ UNCHANGED <<algebraVars, parserVars, rouxVars, algVars, orderVars, faceletVars, blockVars>>

\* SequenceGraph::search, to its return or its panic.
Search(t, h) ==
    /\ explore.pending = <<>>
    /\ search.outcome = "idle"
    /\ target' = Some(t)
    /\ hash_order' = h
    /\ search' = SearchRun(explore.graph, IterationOrder(h, explore.nodes),
                           IterationOrder(h, InputGenSet(gen_input)), 4096,
                           SearchStart(explore.graph, t))
    /\ UNCHANGED <<gen_input, explore, cube, answer>>
    /\ UNCHANGED <<algebraVars, parserVars, rouxVars, algVars, orderVars, faceletVars, blockVars>>

\* A caller turns the cube it will ask about by one more move.
Scramble(t) ==
    /\ search.outcome = "returned"
    /\ Len(cube.scramble) < MaxScramble
    /\ LET mv == ParseMove(t).value
       IN  cube' = [scramble |-> Append(cube.scramble, mv),
                    permutation |-> CubeOp(FromMove(mv), cube.permutation)]
    /\ answer' = None
    /\ UNCHANGED <<gen_input, explore, search, target, hash_order>>
    /\ UNCHANGED <<algebraVars, parserVars, rouxVars, algVars, orderVars, faceletVars, blockVars>>

\* SequenceSolver::solve on the signature of the cube.
Solve ==
    /\ search.outcome = "returned"
    /\ answer = None
    /\ answer' = SolverSolve(search.node_info, InputSignature(gen_input, cube.permutation))
    /\ UNCHANGED <<gen_input, explore, search, target, hash_order, cube>>
    /\ UNCHANGED <<algebraVars, parserVars, rouxVars, algVars, orderVars, faceletVars, blockVars>>

SolverNext ==
    \/ New
    \/ \E t \in SolverTargets(gen_input), h \in HashOrders : Search(t, h)
    \/ \E t \in ScrambleTokens : Scramble(t)
    \/ Solve

SpecSolver == SolverInit /\ [][SolverNext]_vars

(***************************************************************************)
(* SpecGraph.  SequenceGraph::new and SequenceGraph::search on the same    *)
(* inputs as SpecSolver, one call of explore and one round of the while    *)
(* loop of search at a time.                                               *)
(***************************************************************************)
\* One call of explore, lines 69-101: the call on top of the stack.
ExploreCall ==
    /\ explore.pending # <<>>
    /\ LET real_gen_set == InputGenSet(gen_input)
       IN  explore' = Explore(real_gen_set, SeqPerms(real_gen_set),
                              RouxGraphs[gen_input].sig, explore)
    /\ UNCHANGED <<gen_input, search, target, hash_order, cube, answer>>
    /\ UNCHANGED <<algebraVars, parserVars, rouxVars, algVars, orderVars, faceletVars, blockVars>>

\* search, lines 118-139: the queue, the tentative sequences and the table
\* as they are when the loop is entered.
SearchBegin(t, h) ==
    /\ explore.pending = <<>>
    /\ search.outcome = "idle"
    /\ target' = Some(t)
    /\ hash_order' = h
    /\ search' = SearchStart(explore.graph, t)
    /\ UNCHANGED <<gen_input, explore, cube, answer>>
    /\ UNCHANGED <<algebraVars, parserVars, rouxVars, algVars, orderVars, faceletVars, blockVars>>

\* One round of the while loop of search, lines 141-171, or its end.
SearchRound ==
    /\ explore.pending = <<>>
    /\ search.outcome = "running"
    /\ search' = SearchPop(explore.graph, IterationOrder(hash_order, explore.nodes),
                           IterationOrder(hash_order, InputGenSet(gen_input)), search)
    /\ UNCHANGED <<gen_input, explore, target, hash_order, cube, answer>>
    /\ UNCHANGED <<algebraVars, parserVars, rouxVars, algVars, orderVars, faceletVars, blockVars>>

GraphNext ==
    \/ ExploreCall
    \/ \E t \in SolverTargets(gen_input), h \in HashOrders : SearchBegin(t, h)
    \/ SearchRound

SpecGraph == SolverInit /\ [][GraphNext]_vars

\* The program is one thread that runs every call and every round it has
\* begun: a call of explore on the stack is made, a round of the loop is run.
\* new and search are sequential code: a call of explore that is pending is
\* made, and a loop of search that is running takes its next round. This is
\* weak fairness of the two actions, WF_vars(ExploreCall) and
\* WF_vars(SearchRound), written out with the guard of each action for its
\* ENABLED: the action changes the state wherever its guard holds
\* (GuardsEnable).
ExploreCallFair ==
    \/ []<>(explore.pending = <<>>)
    \/ []<><<ExploreCall>>_vars

SearchRoundFair ==
    \/ []<>(~(explore.pending = <<>> /\ search.outcome = "running"))
    \/ []<><<SearchRound>>_vars

SpecGraphFair == SpecGraph /\ ExploreCallFair /\ SearchRoundFair

GuardsEnable ==
    /\ explore.pending # <<>> =>
            LET real_gen_set == InputGenSet(gen_input)
            IN  Explore(real_gen_set, SeqPerms(real_gen_set),
                        RouxGraphs[gen_input].sig, explore) # explore
    /\ (explore.pending = <<>> /\ search.outcome = "running") =>
            SearchPop(explore.graph, IterationOrder(hash_order, explore.nodes),
                      IterationOrder(hash_order, InputGenSet(gen_input)), search) # search

(***************************************************************************)
(* The Roux driver: roux::solve on a scrambled cube, one add_step call at  *)
(* a time.                                                                 *)
(***************************************************************************)
MaxRouxScramble == 1

RouxScrambleTokens ==
    {<<"R">>, <<"U">>, <<"F">>, <<"L", "'">>, <<"D", "2">>, <<"B">>, <<"M">>}

\* The scramble of the test roux_two_blocks, roux.rs lines 677-680
ScenarioAScramble ==
    <<<<"B">>, <<"R", "2">>, <<"U", "2">>, <<"F">>, <<"R", "'">>, <<"U", "'">>,
      <<"B", "2">>, <<"F">>, <<"U">>, <<"R", "2">>, <<"U", "2">>, <<"L", "'">>,
      <<"D", "'">>, <<"R", "2">>, <<"D">>, <<"L">>, <<"R", "'">>, <<"F", "'">>,
      <<"R">>, <<"F", "2">>, <<"B", "2">>, <<"U">>, <<"D", "'">>, <<"R">>,
      <<"L", "2">>>>

\* Two scrambles that keep both blocks and turn two corners of the last
\* layer in place.
TwistedCornerScrambles ==
    {<<<<"F">>, <<"R", "'">>, <<"F", "'">>, <<"R">>, <<"U">>, <<"R">>, <<"U", "'">>,
       <<"R", "'">>>>,
     <<<<"R">>, <<"U">>, <<"R", "'">>, <<"U", "'">>, <<"R", "'">>, <<"F">>, <<"R">>,
       <<"F", "'">>>>}

\* The scramble of tests::roux_first_pair of intuitive.rs.
FirstPairScramble ==
    <<<<"B">>, <<"R", "2">>, <<"U", "2">>, <<"F">>, <<"R", "'">>, <<"U", "'">>,
      <<"B", "2">>, <<"F">>, <<"U">>, <<"R", "2">>, <<"U", "2">>, <<"L", "'">>,
      <<"D", "'">>, <<"R", "2">>, <<"D">>, <<"L">>, <<"R", "'">>, <<"F", "'">>, <<"R">>,
      <<"F", "2">>, <<"B", "2">>, <<"U">>, <<"D", "'">>, <<"R">>, <<"L", "2">>>>

RouxScrambles ==
    UNION {[1..n -> RouxScrambleTokens] : n \in 0..MaxRouxScramble}
        \cup {ScenarioAScramble, FirstPairScramble} \cup TwistedCornerScrambles

NotReturned == [returned |-> FALSE]

Returned(v) == [returned |-> TRUE, value |-> v]

RouxInit ==
    /\ tables = [first_edge  |-> RouxSolverOf("first_edge"),
                 first_pair  |-> RouxSolverOf("first_pair"),
                 second_pair |-> RouxSolverOf("second_pair"),
                 second_edge |-> RouxSolverOf("second_edge"),
                 third_pair  |-> RouxSolverOf("third_pair"),
                 fourth_pair |-> RouxSolverOf("fourth_pair"),
                 cmll        |-> CmllSolver,
                 eo          |-> RouxSolverOf("eo"),
                 lr          |-> RouxSolverOf("lr"),
                 l4e         |-> RouxSolverOf("l4e")]
    /\ scramble \in {ParseSequence(s).value : s \in RouxScrambles}
    /\ permutation = FromMoveSequence(scramble)
    /\ steps = <<>>
    /\ calls = 0
    /\ result = NotReturned
    /\ AlgebraIdle /\ ParserIdle /\ SolverIdle /\ AlgIdle /\ OrderIdle /\ FaceletIdle /\ BlockIdle

\* One call of the closure add_step, lines 618-624, on the next step
\* function: on None the ? returns from the closure alone, and solve
\* goes on to its next statement.
AddStep ==
    /\ calls < Len(StepNames)
    /\ LET step == RouxStep(tables, StepNames[calls + 1], permutation)
       IN  IF step.some
           THEN /\ permutation' = CubeOp(FromMoveSequence(step.value), permutation)
                /\ steps' = Append(steps, [step_name |-> StepNames[calls + 1],
                                           moves |-> step.value])
           ELSE UNCHANGED <<permutation, steps>>
    /\ calls' = calls + 1
    /\ UNCHANGED <<tables, scramble, result>>
    /\ UNCHANGED <<algebraVars, parserVars, solverVars, algVars, orderVars, faceletVars, blockVars>>

\* The last statement of solve, lines 637-641.
Return ==
    /\ calls = Len(StepNames)
    /\ result = NotReturned
    /\ result' = Returned(Some(steps))
    /\ UNCHANGED <<tables, scramble, permutation, steps, calls>>
    /\ UNCHANGED <<algebraVars, parserVars, solverVars, algVars, orderVars, faceletVars, blockVars>>

RouxNext == AddStep \/ Return

SpecRoux == RouxInit /\ [][RouxNext]_vars

(***************************************************************************)
(* SpecAlg.  AlgorithmicSolver::new, one round of its loops at a time,     *)
(* and AlgorithmicSolver::solve on cubes a caller has scrambled.           *)
(***************************************************************************)
MaxAlgScramble == 2

\* The algorithm lists the solver is built from: the O, H and T cases of
\* the CMLL list of roux.rs, and the whole list as the CMLL static uses it.
AlgInputs == {<<1, 2>>, <<3, 6>>, <<19, 24>>, <<1, 36>>}

\* The moves a caller turns the cube by.
AlgScrambleTokens ==
    {<<<<"U">>>>, <<<<"U", "'">>>>, <<<<"M">>>>, <<<<"R">>>>}

AlgInit ==
    /\ \E input \in AlgInputs :
           alg_input = [alg_set |-> ParseAll(SubSeq(CmllAlgSet, input[1], input[2])),
                        real_pre_moves |-> RealPreMoves(ParseAll(<<<<<<"U">>>>>>)),
                        real_post_moves |-> RealPreMoves(ParseAll(<<<<<<"U">>>>>>)),
                        sig |-> [kind |-> "cmll"]]
    /\ alg_state = [round |-> 0, node_info |-> <<>>]
    /\ alg_cube = [scrambles |-> 0, case_set |-> FALSE, permutation |-> CubeIdentity]
    /\ alg_answer = None
    /\ AlgebraIdle /\ ParserIdle /\ SolverIdle /\ RouxIdle /\ OrderIdle /\ FaceletIdle /\ BlockIdle

AlgBuilt ==
    alg_state.round = AlgRounds(alg_input.alg_set, alg_input.real_pre_moves,
                                alg_input.real_post_moves)

\* One round of the loops of AlgorithmicSolver::new, lines 64-87.
AlgNew ==
    /\ ~AlgBuilt
    /\ alg_state' = AlgStep(alg_input.alg_set, alg_input.real_pre_moves,
                            alg_input.real_post_moves, alg_input.sig, alg_state)
    /\ UNCHANGED <<alg_input, alg_cube, alg_answer>>
    /\ UNCHANGED <<algebraVars, parserVars, solverVars, rouxVars, orderVars, faceletVars, blockVars>>

\* The caller turns its cube by a move, or sets up a case on it by one of
\* the algorithms, which it does once at most.
AlgScramble ==
    /\ AlgBuilt
    /\ alg_cube.scrambles < MaxAlgScramble
    /\ \/ \E t \in AlgScrambleTokens :
              alg_cube' = [alg_cube EXCEPT
                              !.scrambles = @ + 1,
                              !.permutation = CubeOp(FromMoveSequence(ParseSequence(t).value), @)]
       \/ /\ ~alg_cube.case_set
          /\ \E alg \in Range(alg_input.alg_set) :
                 alg_cube' = [scrambles |-> alg_cube.scrambles + 1,
                              case_set |-> TRUE,
                              permutation |-> CubeOp(FromMoveSequence(alg),
                                                     alg_cube.permutation)]
    /\ alg_answer' = None
    /\ UNCHANGED <<alg_input, alg_state>>
    /\ UNCHANGED <<algebraVars, parserVars, solverVars, rouxVars, orderVars, faceletVars, blockVars>>

\* AlgorithmicSolver::solve, lines 101-103, on the signature of the cube.
AlgSolve ==
    /\ AlgBuilt
    /\ alg_answer' = SolverSolve(alg_state.node_info,
                                 Signature(alg_input.sig, alg_cube.permutation))
    /\ UNCHANGED <<alg_input, alg_state, alg_cube>>
    /\ UNCHANGED <<algebraVars, parserVars, solverVars, rouxVars, orderVars, faceletVars, blockVars>>

AlgNext == AlgNew \/ AlgScramble \/ AlgSolve

SpecAlg == AlgInit /\ [][AlgNext]_vars

(***************************************************************************)
(* SpecOrder.  A written sequence is folded into a permutation by          *)
(* from_move_sequence, and Group::order is run, one round of its while     *)
(* loop at a time, on the whole permutation, its edges or its corners.     *)
(***************************************************************************)
MaxOrder == 16

\* The U-perm of tests::u_perm.
UPerm ==
    <<<<"R", "'">>, <<"U">>, <<"R", "'">>, <<"U", "'">>, <<"R", "'">>, <<"U", "'">>,
      <<"R", "'">>, <<"U">>, <<"R">>, <<"U">>, <<"R", "2">>>>

\* The A-perm of tests::a_perm.
APerm ==
    <<<<"L", "2">>, <<"D", "2">>, <<"L", "'">>, <<"U", "'">>, <<"L">>, <<"D", "2">>,
      <<"L", "'">>, <<"U">>, <<"L", "'">>>>

\* The H-perm of tests::h_perm.
HPerm ==
    <<<<"M", "2">>, <<"U">>, <<"M", "2">>, <<"U", "2">>, <<"M", "2">>, <<"U">>,
      <<"M", "2">>>>

\* The superflip of tests::alg_parsing.
Superflip ==
    <<<<"U">>, <<"R", "2">>, <<"F">>, <<"B">>, <<"R">>, <<"B", "2">>, <<"R">>,
      <<"U", "2">>, <<"L">>, <<"B", "2">>, <<"R">>, <<"U", "'">>, <<"D", "'">>,
      <<"R", "2">>, <<"F">>, <<"R", "'">>, <<"L">>, <<"B", "2">>, <<"U", "2">>,
      <<"F", "2">>>>

\* The face quarter turns, both ways round.
FaceQuarterTurns ==
    UNION {{<<<<f>>>>, <<<<f, "'">>>>} : f \in {"F", "R", "U", "B", "L", "D"}}

\* The slice quarter turns, both ways round.
SliceQuarterTurns ==
    UNION {{<<<<s>>>>, <<<<s, "'">>>>} : s \in {"S", "M", "E"}}

\* The sequences order is asked about: those of the tests of permute.rs,
\* and every face and slice quarter turn.
OrderInputs ==
    {UPerm, APerm, HPerm, Superflip, <<<<"F">>, <<"R">>>>, <<<<"R">>, <<"F">>>>}
        \cup FaceQuarterTurns \cup SliceQuarterTurns

Components == {"cube", "edges", "corners"}

\* CubePermutation3::edges and corners, or the permutation itself.
ComponentOf(kind, g) ==
    CASE kind = "cube" -> g
      [] kind = "edges" -> g.edges
      [] kind = "corners" -> g.corners

\* Magma::op of the group order is called on.
ComponentOp(kind, a, b) ==
    CASE kind = "cube" -> CubeOp(a, b)
      [] kind = "edges" -> EdgeOp(a, b)
      [] kind = "corners" -> CornerOp(a, b)

\* Unital::identity of the group order is called on.
ComponentIdentity(kind) == ComponentOf(kind, CubeIdentity)

OrderInit ==
    /\ turns \in {ParseSequence(s).value : s \in OrderInputs}
    /\ component \in Components
    /\ operation = None
    /\ power = None
    /\ count = 0
    /\ order_result = None
    /\ AlgebraIdle /\ ParserIdle /\ SolverIdle /\ RouxIdle /\ AlgIdle
    /\ FaceletIdle /\ BlockIdle

\* CubePermutation3::from_move_sequence on the written sequence.
Fold ==
    /\ ~operation.some
    /\ operation' = Some(FromMoveSequence(turns))
    /\ UNCHANGED <<turns, component, power, count, order_result>>
    /\ UNCHANGED <<algebraVars, parserVars, solverVars, rouxVars, algVars, faceletVars, blockVars>>

\* Group::order, lines 25-27: x = self.clone(), i = 1.
OrderBegin ==
    /\ operation.some
    /\ count = 0
    /\ power' = Some(ComponentOf(component, operation.value))
    /\ count' = 1
    /\ UNCHANGED <<turns, component, operation, order_result>>
    /\ UNCHANGED <<algebraVars, parserVars, solverVars, rouxVars, algVars, faceletVars, blockVars>>

\* One round of the while loop, lines 28-31.
OrderStep ==
    /\ count >= 1
    /\ count < MaxOrder
    /\ ~order_result.some
    /\ power.value # ComponentIdentity(component)
    /\ power' = Some(ComponentOp(component, power.value,
                                 ComponentOf(component, operation.value)))
    /\ count' = count + 1
    /\ UNCHANGED <<turns, component, operation, order_result>>
    /\ UNCHANGED <<algebraVars, parserVars, solverVars, rouxVars, algVars, faceletVars, blockVars>>

\* The loop ends, line 32: order returns i.
OrderReturn ==
    /\ count >= 1
    /\ ~order_result.some
    /\ power.value = ComponentIdentity(component)
    /\ order_result' = Some(count)
    /\ UNCHANGED <<turns, component, operation, power, count>>
    /\ UNCHANGED <<algebraVars, parserVars, solverVars, rouxVars, algVars, faceletVars, blockVars>>

OrderNext == Fold \/ OrderBegin \/ OrderStep \/ OrderReturn

SpecOrder == OrderInit /\ [][OrderNext]_vars

(***************************************************************************)
(* cube.rs: the facelet cube.  A Face<3> is a function from <<row, col>>   *)
(* to a colour, a Cube<3> a function from the six faces to their Face.     *)
(***************************************************************************)
\* impl From<FaceType> for Colour: the transmute pairs the enums in order.
Colour ==
    [ty \in Range(FaceType) |->
        CASE ty = "F" -> "Green" [] ty = "R" -> "Red" [] ty = "U" -> "White"
          [] ty = "B" -> "Blue" [] ty = "L" -> "Orange" [] ty = "D" -> "Yellow"]

Cells == (0..(NCube - 1)) \X (0..(NCube - 1))

\* Face::new
FaceNew(ty) == [rc \in Cells |-> Colour[ty]]

\* Cube::new
CubeNew == [ty \in Range(FaceType) |-> FaceNew(ty)]

\* Face::row, row_rev, col, col_rev: arrays indexed from 0
FaceRow(face, row) == [i \in 0..(NCube - 1) |-> face[<<row, i>>]]

FaceRowRev(face, row) == [i \in 0..(NCube - 1) |-> face[<<row, NCube - 1 - i>>]]

FaceCol(face, col) == [i \in 0..(NCube - 1) |-> face[<<i, col>>]]

FaceColRev(face, col) == [i \in 0..(NCube - 1) |-> face[<<NCube - 1 - i, col>>]]

\* Face::rotate_cw: row i of the result is col_rev(i)
RotateCw(face) == [rc \in Cells |-> FaceColRev(face, rc[1])[rc[2]]]

\* Face::rotate_ccw: row i of the result is col(N - 1 - i)
RotateCcw(face) == [rc \in Cells |-> FaceCol(face, NCube - 1 - rc[1])[rc[2]]]

\* Face::rotate_double: row i of the result is row_rev(N - 1 - i)
RotateDouble(face) == [rc \in Cells |-> FaceRowRev(face, NCube - 1 - rc[1])[rc[2]]]

\* Face::set_row, set_col
SetRow(face, row, data) ==
    [rc \in Cells |-> IF rc[1] = row THEN data[rc[2]] ELSE face[rc]]

SetCol(face, col, data) ==
    [rc \in Cells |-> IF rc[2] = col THEN data[rc[1]] ELSE face[rc]]

\* Face::overwrite_from, the loop over i from start_depth to end_depth
RECURSIVE OverwriteLoop(_, _, _, _, _, _)
OverwriteLoop(face, i, end_depth, target_type, source, source_type) ==
    IF i >= end_depth THEN face
    ELSE
      LET j == NCube - 1 - i
          source_clockwise == source_type \in {"Top", "Right"}
          target_clockwise == target_type \in {"Top", "Right"}
          reverse_direction == source_clockwise # target_clockwise
          source_row ==
              CASE source_type = "Top" /\ ~reverse_direction -> FaceRow(source, i)
                [] source_type = "Top" /\ reverse_direction -> FaceRowRev(source, i)
                [] source_type = "Right" /\ ~reverse_direction -> FaceCol(source, j)
                [] source_type = "Right" /\ reverse_direction -> FaceColRev(source, j)
                [] source_type = "Bottom" /\ ~reverse_direction -> FaceRow(source, j)
                [] source_type = "Bottom" /\ reverse_direction -> FaceRowRev(source, j)
                [] source_type = "Left" /\ ~reverse_direction -> FaceCol(source, i)
                [] source_type = "Left" /\ reverse_direction -> FaceColRev(source, i)
          next ==
              CASE target_type = "Top" -> SetRow(face, i, source_row)
                [] target_type = "Right" -> SetCol(face, j, source_row)
                [] target_type = "Bottom" -> SetRow(face, j, source_row)
                [] target_type = "Left" -> SetCol(face, i, source_row)
      IN  OverwriteLoop(next, i + 1, end_depth, target_type, source, source_type)

OverwriteFrom(face, start_depth, end_depth, target_type, source, source_type) ==
    OverwriteLoop(face, start_depth, end_depth, target_type, source, source_type)

\* The arms of the match in Cube::perform: for an axis and a rotation, what
\* the perform! macro is given for the faces F, R, U, B, L, D in this order.
PerformArms ==
    [FB |-> [Normal  |-> <<<<"cw">>, <<"Left", "U", "Bottom">>, <<"Bottom", "L", "Right">>,
                           <<"b", "cw">>, <<"Right", "D", "Top">>, <<"Top", "R", "Left">>>>,
             Double  |-> <<<<"2">>, <<"Left", "L", "Right">>, <<"Bottom", "D", "Top">>,
                           <<"b", "2">>, <<"Right", "R", "Left">>, <<"Top", "U", "Bottom">>>>,
             Inverse |-> <<<<"ccw">>, <<"Left", "D", "Top">>, <<"Bottom", "R", "Left">>,
                           <<"b", "ccw">>, <<"Right", "U", "Bottom">>, <<"Top", "L", "Right">>>>],
     RL |-> [Normal  |-> <<<<"Right", "D", "Right">>, <<"cw">>, <<"Right", "F", "Right">>,
                           <<"Left", "U", "Right">>, <<"b", "cw">>, <<"Right", "B", "Left">>>>,
             Double  |-> <<<<"Right", "B", "Left">>, <<"2">>, <<"Right", "D", "Right">>,
                           <<"Left", "F", "Right">>, <<"b", "2">>, <<"Right", "U", "Right">>>>,
             Inverse |-> <<<<"Right", "U", "Right">>, <<"ccw">>, <<"Right", "B", "Left">>,
                           <<"Left", "D", "Right">>, <<"b", "ccw">>, <<"Right", "F", "Right">>>>],
     UD |-> [Normal  |-> <<<<"Top", "R", "Top">>, <<"Top", "B", "Top">>, <<"cw">>,
                           <<"Top", "L", "Top">>, <<"Top", "F", "Top">>, <<"b", "cw">>>>,
             Double  |-> <<<<"Top", "B", "Top">>, <<"Top", "L", "Top">>, <<"2">>,
                           <<"Top", "F", "Top">>, <<"Top", "R", "Top">>, <<"b", "2">>>>,
             Inverse |-> <<<<"Top", "L", "Top">>, <<"Top", "F", "Top">>, <<"ccw">>,
                           <<"Top", "R", "Top">>, <<"Top", "B", "Top">>, <<"b", "ccw">>>>]]

\* The rotation a face! arm names
Rotate(how, face) ==
    CASE how = "cw" -> RotateCw(face)
      [] how = "2" -> RotateDouble(face)
      [] how = "ccw" -> RotateCcw(face)

\* The face! macro: one face of the cube after the move, from the cube
\* before it.
FaceArm(self, ty, arm, start_depth, end_depth) ==
    IF Len(arm) = 1
    THEN IF start_depth = 0 THEN Rotate(arm[1], self[ty]) ELSE self[ty]
    ELSE IF Len(arm) = 2
    THEN IF end_depth = NCube THEN Rotate(arm[2], self[ty]) ELSE self[ty]
    ELSE OverwriteFrom(self[ty], start_depth, end_depth, arm[1], self[arm[2]], arm[3])

\* Cube::perform
CubePerform(self, mv) ==
    LET arms == PerformArms[mv.axis][mv.rotation_type]
    IN  [ty \in Range(FaceType) |->
            FaceArm(self, ty, arms[FaceIndex[ty] + 1], mv.start_depth, mv.end_depth)]

(***************************************************************************)
(* The facelet cube: Cube::new, then perform called with Moves.            *)
(***************************************************************************)
MaxPerform == 2

FaceletInit ==
    /\ facelets = CubeNew
    /\ performed = <<>>
    /\ AlgebraIdle /\ ParserIdle /\ SolverIdle /\ RouxIdle /\ AlgIdle /\ OrderIdle /\ BlockIdle

\* cube = cube.perform(mv)
Perform(mv) ==
    /\ Len(performed) < MaxPerform
    /\ facelets' = CubePerform(facelets, mv)
    /\ performed' = Append(performed, mv)
    /\ UNCHANGED <<algebraVars, parserVars, solverVars, rouxVars, algVars, orderVars, blockVars>>

FaceletNext == \E mv \in Moves3 : Perform(mv)

SpecFacelets == FaceletInit /\ [][FaceletNext]_vars

(***************************************************************************)
(* blockbuilding.rs: the tree of move sequences and its search.            *)
(***************************************************************************)
\* BlockbuildingGraph::new
BlockbuildingGraphNew == [permutation |-> CubeIdentity, children |-> None]

\* The closure insert_edge hands to search: the edge cubelet source is
\* taken to the slot edge_target with the orientation target_orientation.
Condition(cond, perm) ==
    EdgeAct(perm.edges, <<cond.source, CyclicNew(2, 0)>>)
        = <<cond.edge_target, cond.target_orientation>>

\* The closure of get_or_insert_with: one child per generator, with the
\* permutation of that generator.
NewChildren(gen_set) ==
    [i \in 1..Len(gen_set) |->
        <<gen_set[i],
          [permutation |-> FromMoveSequence(gen_set[i]), children |-> None]>>]

\* BlockbuildingGraph::search and its loop over the children; both yield
\* the graph as the call leaves it and the solutions collected.
RECURSIVE BlockSearch(_, _, _, _)
RECURSIVE BlockSearchChildren(_, _, _, _, _, _)
BlockSearchChildren(children, i, max_moves, gen_set, cond, found) ==
    IF i > Len(children) THEN [children |-> children, solutions |-> found]
    ELSE
      LET sequence == children[i][1]
      IN  IF Len(sequence) <= max_moves
          THEN LET inner == BlockSearch(children[i][2], max_moves - Len(sequence),
                                        gen_set, cond)
                   prefixed == [k \in 1..Len(inner.solutions) |->
                                   <<sequence \o inner.solutions[k][1],
                                     inner.solutions[k][2]>>]
               IN  BlockSearchChildren([children EXCEPT ![i] = <<sequence, inner.graph>>],
                                       i + 1, max_moves, gen_set, cond, found \o prefixed)
          ELSE BlockSearchChildren(children, i + 1, max_moves, gen_set, cond, found)

BlockSearch(graph, max_moves, gen_set, cond) ==
    LET first == IF Condition(cond, graph.permutation)
                 THEN <<<<<<>>, graph.permutation>>>>
                 ELSE <<>>
        children == IF graph.children.some THEN graph.children.value
                    ELSE NewChildren(gen_set)
        searched == BlockSearchChildren(children, 1, max_moves, gen_set, cond, first)
    IN  [graph |-> [permutation |-> graph.permutation,
                    children |-> Some(searched.children)],
         solutions |-> searched.solutions]

(***************************************************************************)
(* The blockbuilder: an IntuitiveBlockbuilder with a new graph, searched   *)
(* for one condition after another.                                        *)
(***************************************************************************)
MaxBlockMoves == 2

\* Generating sets: quarter turns of three faces, and a set with a
\* generator of three moves.
BlockGenSets ==
    {ParseAll(<<<<<<"R">>>>, <<<<"U">>>>, <<<<"F", "'">>>>, <<<<"R", "'">>>>>>),
     ParseAll(<<<<<<"U">>>>, <<<<"R">>, <<"U">>, <<"R", "'">>>>, <<<<"F", "2">>>>>>)}

\* Conditions: the edge UF or UR into a slot of the middle or the top layer.
BlockConditions ==
    [source : {"UF", "UR"}, edge_target : {"FR", "UF", "UB", "BR"},
     target_orientation : {0, 1}]

BlockInit ==
    /\ blockbuilder \in [gen_set : BlockGenSets, graph : {BlockbuildingGraphNew}]
    /\ query = None
    /\ solutions = None
    /\ AlgebraIdle /\ ParserIdle /\ SolverIdle /\ RouxIdle /\ AlgIdle /\ OrderIdle /\ FaceletIdle

\* self.graph.search(max_moves, &self.gen_set, condition), as insert_edge
\* calls it.
InsertEdge(max_moves, cond) ==
    /\ LET r == BlockSearch(blockbuilder.graph, max_moves, blockbuilder.gen_set, cond)
       IN  /\ blockbuilder' = [blockbuilder EXCEPT !.graph = r.graph]
           /\ solutions' = Some(r.solutions)
    /\ query' = Some([max_moves |-> max_moves, cond |-> cond])
    /\ UNCHANGED <<algebraVars, parserVars, solverVars, rouxVars, algVars, orderVars, faceletVars>>

BlockNext == \E max_moves \in 0..MaxBlockMoves, cond \in BlockConditions : InsertEdge(max_moves, cond)

SpecBlock == BlockInit /\ [][BlockNext]_vars

(***************************************************************************)
(* Properties of the algebra.                                              *)
(***************************************************************************)
\* C7: the cube permutations form a group under op: identity is neutral on
\* both sides, inverse is an inverse on both sides, and op is associative.
C7_GroupLaws ==
    LET P == perms[1]
        Q == perms[2]
        R == perms[3]
    IN  /\ CubeOp(P, CubeIdentity) = P
        /\ CubeOp(CubeIdentity, P) = P
        /\ CubeOp(P, CubeInverse(P)) = CubeIdentity
        /\ CubeOp(CubeInverse(P), P) = CubeIdentity
        /\ CubeOp(CubeOp(P, Q), R) = CubeOp(P, CubeOp(Q, R))

\* Three different turns of the cube, two of which do not commute.
C7_Witness ==
    /\ perms[1] # CubeIdentity /\ perms[2] # CubeIdentity /\ perms[3] # CubeIdentity
    /\ perms[1] # perms[2] /\ perms[2] # perms[3] /\ perms[1] # perms[3]
    /\ CubeOp(perms[1], perms[2]) # CubeOp(perms[2], perms[1])

\* C8: the permutation of a followed by b is the permutation of b composed
\* onto the permutation of a, so the move written first acts first; the
\* written sequence "R F" is P_F . P_R.
C8_WrittenOrder ==
    /\ \A i, j \in 1..3 :
          FromMoveSequence(seqs[i] \o seqs[j]) = CubeOp(perms[j], perms[i])
    /\ (seqs[1] = ParseSequence(<<<<"R">>>>).value
          /\ seqs[2] = ParseSequence(<<<<"F">>>>).value) =>
          FromMoveSequence(seqs[1] \o seqs[2])
              = CubeOp(CubeFromFaceTurn("F", "Normal"), CubeFromFaceTurn("R", "Normal"))

\* The sequences "R" and "F" have been parsed, and their two orders differ.
C8_Witness ==
    /\ seqs[1] = ParseSequence(<<<<"R">>>>).value
    /\ seqs[2] = ParseSequence(<<<<"F">>>>).value
    /\ FromMoveSequence(seqs[1] \o seqs[2]) # FromMoveSequence(seqs[2] \o seqs[1])

EdgePairs == {<<EdgeType[i], r>> : i \in DOMAIN EdgeType, r \in 0..1}

CornerPairs == {<<CornerType[i], r>> : i \in DOMAIN CornerType, r \in 0..2}

\* C9: act is a left action of the oriented groups on (cubelet, twist)
\* pairs, for edges and for corners: acting by a . b is acting by b and
\* then by a, the identity fixes every pair, and unact undoes act on
\* either side.
C9_LeftAction ==
    LET a == perms[1]
        b == perms[2]
    IN  /\ \A x \in EdgePairs :
              /\ EdgeAct(EdgeOp(a.edges, b.edges), x) = EdgeAct(a.edges, EdgeAct(b.edges, x))
              /\ EdgeAct(EdgeIdentity, x) = x
              /\ EdgeUnact(a.edges, EdgeAct(a.edges, x)) = x
              /\ EdgeAct(a.edges, EdgeUnact(a.edges, x)) = x
        /\ \A x \in CornerPairs :
              /\ CornerAct(CornerOp(a.corners, b.corners), x)
                    = CornerAct(a.corners, CornerAct(b.corners, x))
              /\ CornerAct(CornerIdentity, x) = x
              /\ CornerUnact(a.corners, CornerAct(a.corners, x)) = x
              /\ CornerAct(a.corners, CornerUnact(a.corners, x)) = x

\* b twists an edge and a corner that a then carries to another place.
C9_Witness ==
    /\ \E x \in EdgePairs :
          /\ EdgeAct(perms[2].edges, x)[2] # x[2]
          /\ EdgeAct(perms[1].edges, EdgeAct(perms[2].edges, x))[1]
                # EdgeAct(perms[2].edges, x)[1]
    /\ \E x \in CornerPairs :
          /\ CornerAct(perms[2].corners, x)[2] # x[2]
          /\ CornerAct(perms[1].corners, CornerAct(perms[2].corners, x))[1]
                # CornerAct(perms[2].corners, x)[1]

(***************************************************************************)
(* Properties of the parser.                                               *)
(***************************************************************************)
FaceLetters == {"F", "R", "U", "B", "L", "D"}

\* C10: a parsed face letter X is the clockwise quarter turn of that face,
\* X' its inverse and X2 its square; M, E and S turn the middle layer the
\* way L, D and F turn: M and E are the inverses of the normal slice turns
\* of the RL and UD axes, S is the normal slice turn of the FB axis.
C10_ParsedTurns ==
    parsed.some =>
        LET quarter(X) == CubeFromFaceTurn(X, "Normal")
            got == FromMove(parsed.value.value)
        IN  /\ \A X \in FaceLetters :
                  /\ token = <<X>> =>
                        ~parsed.value.err /\ got = quarter(X)
                  /\ token = <<X, "'">> =>
                        ~parsed.value.err /\ got = CubeInverse(quarter(X))
                  /\ token = <<X, "2">> =>
                        ~parsed.value.err /\ got = CubeOp(quarter(X), quarter(X))
            /\ token = <<"M">> =>
                  /\ ~parsed.value.err
                  /\ got = CubeInverse(CubeFromSliceTurn("RL", "Normal"))
                  /\ CentreAct(got.centres, "U") = "F"
                  /\ EdgeAct(CubeFromFaceTurn("L", "Normal").edges, <<"UL", 0>>)[1] = "FL"
            /\ token = <<"E">> =>
                  /\ ~parsed.value.err
                  /\ got = CubeInverse(CubeFromSliceTurn("UD", "Normal"))
                  /\ CentreAct(got.centres, "F") = "R"
                  /\ EdgeAct(CubeFromFaceTurn("D", "Normal").edges, <<"DF", 0>>)[1] = "DR"
            /\ token = <<"S">> =>
                  /\ ~parsed.value.err
                  /\ got = CubeFromSliceTurn("FB", "Normal")
                  /\ CentreAct(got.centres, "U") = "R"
                  /\ EdgeAct(CubeFromFaceTurn("F", "Normal").edges, <<"UF", 0>>)[1] = "FR"

\* The token B' has been parsed: a back face, turned anticlockwise.
C10_Witness ==
    /\ parsed.some /\ ~parsed.value.err
    /\ token = <<"B", "'">>


(***************************************************************************)
(* Properties of the solver.                                               *)
(***************************************************************************)
\* C3: a sequence solve returns for the signature of a cube, applied to
\* that cube, gives a cube whose signature is the target of the search.
C3_SolveReachesTarget ==
    answer.some =>
        InputSignature(gen_input,
                       CubeOp(FromMoveSequence(answer.value), cube.permutation))
            = target.value

\* A scrambled cube away from the target, for which solve returned a
\* sequence of two moves or more.
C3_Witness ==
    /\ answer.some
    /\ Len(answer.value) >= 2
    /\ Len(cube.scramble) = MaxScramble
    /\ InputSignature(gen_input, cube.permutation) # target.value

\* The least cost of a path from each node to the target along the edges of
\* the graph, by relaxing every edge until nothing changes; U64_MAX where
\* there is no path.
RECURSIVE PathCosts(_, _, _)
PathCosts(graph, target_signature, cost) ==
    LET via(s) == {Metric(g) + cost[graph[s][g]] :
                      g \in {h \in DOMAIN graph[s] : cost[graph[s][h]] # U64_MAX}}
        next == [s \in DOMAIN graph |->
                    CHOOSE c \in via(s) \cup {cost[s]} :
                        \A d \in via(s) \cup {cost[s]} : c <= d]
    IN  IF next = cost THEN cost ELSE PathCosts(graph, target_signature, next)

MinPathCost(graph, target_signature) ==
    PathCosts(graph, target_signature,
              [s \in DOMAIN graph |-> IF s = target_signature THEN 0 ELSE U64_MAX])

\* C4: when search returns, the cost of every sequence of the table is the
\* least cost of a path from its signature to the target in the graph.
C4_StoredCostIsMinimal ==
    [][(search.outcome = "idle" /\ search'.outcome = "returned") =>
          LET least == MinPathCost(explore.graph, target'.value)
          IN  \A s \in DOMAIN explore.graph :
                  search'.node_info[s].some =>
                      Metric(search'.node_info[s].value) = least[s]]_vars

\* A returned search over generators of one and of three moves, with a
\* stored sequence of cost four or more.
C4_Witness ==
    /\ search.outcome = "returned"
    /\ gen_input = "lr"
    /\ \E s \in DOMAIN explore.graph :
          search.node_info[s].some /\ Metric(search.node_info[s].value) >= 4

\* C5: a search whose target is no node of the graph returns, with an
\* empty table, and does not panic.
C5_MissingTargetGivesEmptyTable ==
    (search.outcome # "idle" /\ target.value \notin DOMAIN explore.graph) =>
        /\ search.outcome = "returned"
        /\ \A s \in DOMAIN search.node_info : ~search.node_info[s].some

\* C6: every edge (g, s') stored at the node of a cube's signature leads
\* that cube, whichever cube of the signature it is, to s'.
C6_EdgesHoldForEveryCube ==
    LET s == InputSignature(gen_input, cube.permutation)
    IN  s \in DOMAIN explore.graph =>
            \A g \in DOMAIN explore.graph[s] :
                InputSignature(gen_input, CubeOp(FromMoveSequence(g), cube.permutation))
                    = explore.graph[s][g]

\* A cube turned by moves that are no generators of the graph, away from
\* the signature of the solved cube, at a node with edges.
C6_Witness ==
    /\ gen_input = "second_edge"
    /\ Len(cube.scramble) = 2
    /\ cube.scramble[1] = ParseMove(<<"F", "'">>).value
    /\ InputSignature(gen_input, cube.permutation) \in DOMAIN explore.graph
    /\ InputSignature(gen_input, cube.permutation) # InputSignature(gen_input, CubeIdentity)
    /\ DOMAIN explore.graph[InputSignature(gen_input, cube.permutation)] # {}

\* What search returns for the graph and target of this run when its maps
\* iterate in the order h.
SearchResult(h) ==
    SearchRun(explore.graph, IterationOrder(h, explore.nodes),
              IterationOrder(h, InputGenSet(gen_input)), 4096,
              SearchStart(explore.graph, target.value)).node_info

\* C15: search returns the same move sequence for every signature whatever
\* the order in which the hash maps iterate and equal priorities are popped.
C15_SearchIsDeterministic ==
    (search.outcome = "returned" /\ cube.scramble = <<>> /\ ~answer.some) =>
        \A h \in HashOrders : SearchResult(h) = search.node_info

(***************************************************************************)
(* Properties of the Roux driver.                                          *)
(***************************************************************************)
\* C1: solve returns an Action, and the moves of its steps, applied after
\* the scramble, give the solved cube.
C1_SolveSolvesEveryScramble ==
    result.returned =>
        /\ result.value.some
        /\ CubeOp(FromMoveSequence(ActionMoveSequence(result.value.value)),
                  FromMoveSequence(scramble)) = CubeIdentity

\* The step functions called so far that returned None.
FailedSteps ==
    {i \in 1..calls : \A j \in 1..Len(steps) : steps[j].step_name # StepNames[i]}

\* C2: once a step function has returned None no later step is called, and
\* solve returns None.
C2_DriverAbandonsOnFailure ==
    \A i \in FailedSteps :
        /\ calls = i
        /\ result.returned => ~result.value.some

\* C13: on the solved cube every step's signature is the step's target,
\* every step function called (cmll included) returns the empty sequence,
\* and solve returns an Action whose moves, flattened, are the empty
\* sequence.
C13_SolvedCubeNeedsNoMoves ==
    scramble = <<>> =>
        /\ \A name \in DOMAIN RouxGraphs :
               Signature(RouxGraphs[name].sig, CubeIdentity) = RouxGraphs[name].target
        /\ FailedSteps = {}
        /\ \A j \in 1..Len(steps) : steps[j].moves = <<>>
        /\ result.returned =>
               /\ result.value.some
               /\ ActionMoveSequence(result.value.value) = <<>>

AlgTriples(input) ==
    LET np == Len(input.real_pre_moves)
        nq == Len(input.real_post_moves)
    IN  [k \in 1..AlgRounds(input.alg_set, input.real_pre_moves, input.real_post_moves) |->
            LET a == input.alg_set[((k - 1) \div (np * nq)) + 1]
                p == input.real_pre_moves[(((k - 1) \div nq) % np) + 1]
                q == input.real_post_moves[((k - 1) % nq) + 1]
            IN  <<Signature(input.sig, FromMoveSequence(SeqOp(SeqOp(q, a), p))),
                  SeqInverse(SeqOp(q, a))>>]

AlgKeepsCheapest(input, node_info) ==
    LET triples == Strict(AlgTriples(input))
    IN  /\ \A k \in DOMAIN triples :
               /\ triples[k][1] \in DOMAIN node_info
               /\ Metric(node_info[triples[k][1]].value) <= Metric(triples[k][2])
        /\ \A s \in DOMAIN node_info :
               \E k \in DOMAIN triples : triples[k] = <<s, node_info[s].value>>

PreMoveSignatures ==
    {Signature(alg_input.sig, FromMoveSequence(p)) : p \in Range(alg_input.real_pre_moves)}

OrderIs(seq, kind, n) ==
    (turns = ParseSequence(seq).value /\ component = kind) =>
        /\ count <= n
        /\ count >= 1 => ((power.value = ComponentIdentity(kind)) <=> (count = n))
        /\ order_result.some => order_result.value = n

\* order has returned n for the sequence seq seen as kind.
OrderReturned(seq, kind, n) ==
    /\ turns = ParseSequence(seq).value
    /\ component = kind
    /\ order_result = Some(n)

\* C16: the edge permutation of the U-perm has order 3 and takes UR to UL,
\* UL to UB and UB to UR, each with orientation 0.
C16_UPermEdges ==
    /\ OrderIs(UPerm, "edges", 3)
    /\ (turns = ParseSequence(UPerm).value /\ operation.some) =>
           /\ EdgeAct(operation.value.edges, <<"UR", 0>>) = <<"UL", 0>>
           /\ EdgeAct(operation.value.edges, <<"UL", 0>>) = <<"UB", 0>>
           /\ EdgeAct(operation.value.edges, <<"UB", 0>>) = <<"UR", 0>>

C16_Witness == OrderReturned(UPerm, "edges", 3)

\* C17: the corner permutation of the A-perm has order 3 and takes
\* (BDL, 0) to (BDR, 1), (BDR, 0) to (BUL, 0) and (BUL, 0) to (BDL, 2).
C17_APermCorners ==
    /\ OrderIs(APerm, "corners", 3)
    /\ (turns = ParseSequence(APerm).value /\ operation.some) =>
           /\ CornerAct(operation.value.corners, <<"BDL", 0>>) = <<"BDR", 1>>
           /\ CornerAct(operation.value.corners, <<"BDR", 0>>) = <<"BUL", 0>>
           /\ CornerAct(operation.value.corners, <<"BUL", 0>>) = <<"BDL", 2>>

C17_Witness == OrderReturned(APerm, "corners", 3)

\* C18: the cube permutation of the parsed and folded superflip has order 2.
C18_SuperflipOrder == OrderIs(Superflip, "cube", 2)

C18_Witness ==
    /\ OrderReturned(Superflip, "cube", 2)
    /\ \A i \in DOMAIN EdgeType : operation.value.edges[i] = <<EdgeType[i], 1>>

\* C19: every face quarter turn has order 4, its cube is its inverse and
\* its square is the Double rotation of the same face; the edge
\* permutations of "F R" and of "R F" have order 7.
C19_FaceTurnOrders ==
    /\ \A seq \in FaceQuarterTurns, kind \in Components : OrderIs(seq, kind, 4)
    /\ \A seq \in FaceQuarterTurns :
           (turns = ParseSequence(seq).value /\ operation.some) =>
               LET g == operation.value
               IN  /\ CubeOp(g, CubeOp(g, g)) = CubeInverse(g)
                   /\ CubeOp(g, g) = FromMove([turns[1] EXCEPT !.rotation_type = "Double"])
    /\ OrderIs(<<<<"F">>, <<"R">>>>, "edges", 7)
    /\ OrderIs(<<<<"R">>, <<"F">>>>, "edges", 7)

C19_Witness == OrderReturned(<<<<"F">>, <<"R">>>>, "edges", 7)

\* The four edges of the slice of an axis.
SliceEdges(axis) ==
    CASE axis = "FB" -> {"UR", "DR", "DL", "UL"}
      [] axis = "RL" -> {"UF", "UB", "DB", "DF"}
      [] axis = "UD" -> {"FR", "FL", "BL", "BR"}

\* The folded permutation moves the edges of the slice in one cycle of
\* four, and gives each of them the twist the axis is said to add.
SliceTurnCyclesAndTwists(twist_of_axis) ==
    (turns \in {ParseSequence(s).value : s \in SliceQuarterTurns} /\ operation.some) =>
        LET axis == turns[1].axis
            a == operation.value.edges
        IN  \A e \in SliceEdges(axis) :
                LET once == EdgeAct(a, <<e, 0>>)
                    twice == EdgeAct(a, <<once[1], 0>>)
                IN  /\ once[1] \in SliceEdges(axis)
                    /\ once[1] # e
                    /\ twice[1] # e
                    /\ once[2] = twist_of_axis[axis]

\* C20 as stated: each slice quarter turn is a 4-cycle on the edges of its
\* slice; S (FB) and M (RL) add twist 1 to each edge they cycle, E (UD)
\* adds twist 0.
C20_SliceTurnsAsStated ==
    SliceTurnCyclesAndTwists([axis \in {"FB", "RL", "UD"} |-> IF axis = "UD" THEN 0 ELSE 1])

\* C20, amended: each slice quarter turn is a 4-cycle on the edges of its
\* slice and adds twist 1 to each edge it cycles, E (UD) as well as S (FB)
\* and M (RL).
C20_SliceTurnsTwistEveryEdge ==
    SliceTurnCyclesAndTwists([axis \in {"FB", "RL", "UD"} |-> 1])

\* The E turn has been folded.
C20_Witness ==
    /\ turns = ParseSequence(<<<<"E">>>>).value
    /\ operation.some
    /\ component = "edges"
    /\ order_result.some

\* What a generator contributes when every generator is expanded: itself,
\* its inverse and its double.
Contributions(g) == {SeqInverse(g), SeqOp(g, g), g}

\* The list is canonical, strictly increasing (so sorted and without
\* duplicates) and holds no empty sequence.
NormalisedList(list) ==
    /\ \A i \in DOMAIN list : list[i] # <<>> /\ Canonicalise(list[i]) = list[i]
    /\ \A i, j \in DOMAIN list : i < j => SeqLess(list[i], list[j])

\* C21 as stated: a single-move generator contributes itself, its inverse
\* and its double, a generator of more than one move only itself; the list
\* is canonicalised, sorted, deduplicated and has no empty sequence.
C21_GeneratorsAsStated ==
    LET gen_set == ParseAll(RouxGraphs[gen_input].gen_set)
        real_gen_set == InputGenSet(gen_input)
    IN  /\ NormalisedList(real_gen_set)
        /\ Range(real_gen_set) =
               {Canonicalise(m) :
                   m \in UNION {IF Len(g) = 1 THEN Contributions(g) ELSE {g} :
                                   g \in Range(gen_set)}} \ {<<>>}

\* C21, amended: every generator, of one move or of more, contributes
\* itself, its inverse and its double: each of the three is in the list in
\* its canonical form unless that form is empty, and with the permutation
\* it has as written; the list holds nothing else, and is canonicalised,
\* sorted, deduplicated and without an empty sequence.
C21_EveryGeneratorExpands ==
    LET gen_set == ParseAll(RouxGraphs[gen_input].gen_set)
        real_gen_set == InputGenSet(gen_input)
    IN  /\ NormalisedList(real_gen_set)
        /\ \A g \in Range(gen_set) : \A m \in Contributions(g) :
               \/ Canonicalise(m) = <<>>
               \/ \E i \in DOMAIN real_gen_set :
                      /\ real_gen_set[i] = Canonicalise(m)
                      /\ FromMoveSequence(real_gen_set[i]) = FromMoveSequence(m)
        /\ \A i \in DOMAIN real_gen_set :
               \E g \in Range(gen_set) : \E m \in Contributions(g) :
                   real_gen_set[i] = Canonicalise(m)

\* new has built the graph of LR, and an edge of it is labelled by the
\* double of a generator of three moves.
C21_Witness ==
    /\ gen_input = "lr"
    /\ explore.pending = <<>>
    /\ \E s \in DOMAIN explore.graph : \E g \in DOMAIN explore.graph[s] :
           \E m \in Range(ParseAll(RouxGraphs[gen_input].gen_set)) :
               Len(m) = 3 /\ g = Canonicalise(SeqOp(m, m)) /\ Len(g) = 5

(***************************************************************************)
(* Properties of explore and search, step by step (SpecGraph).             *)
(***************************************************************************)
TargetIsNode == target.some /\ target.value \in DOMAIN explore.graph

\* The signatures with an entry in node_info, and those still queued.
Visited == {s \in DOMAIN search.node_info : search.node_info[s].some}

Queued == {s \in DOMAIN search.unvisited_queue : search.unvisited_queue[s].some}

\* C22: while search runs on a built graph with a target that is a node,
\* the node the queue pops next has a tentative move sequence (the expect
\* never fails), the visited table and the queue are disjoint and together
\* hold exactly the nodes of the graph, and the table returned has one
\* entry for every node.
C22_SearchKeepsItsInvariants ==
    (search.outcome # "idle" /\ TargetIsNode) =>
        /\ search.outcome # "panicked"
        /\ (search.outcome = "running" /\ Queued # {}) =>
               search.unvisited_move_sequences[
                   QueuePop(search.unvisited_queue,
                            IterationOrder(hash_order, explore.nodes))].some
        /\ Visited \cap Queued = {}
        /\ Visited \cup Queued = DOMAIN explore.graph
        /\ search.outcome = "returned" =>
               /\ Queued = {}
               /\ Visited = DOMAIN explore.graph

\* The loop is half way through the graph of LR.
C22_Witness ==
    /\ gen_input = "lr"
    /\ TargetIsNode
    /\ search.outcome = "running"
    /\ Cardinality(Visited) = 60
    /\ Cardinality(Queued) = 60

\* The cubelets a signature follows, at home: the signature of a cube is
\* read off the places a permutation takes them to.
TrackedHome(sig) ==
    CASE sig.kind = "edge" -> <<sig.edge, 0>>
      [] sig.kind = "lr" -> <<<<"UL", 0>>, <<"UR", 0>>, <<"FUL", 0>>>>

\* Where a permutation g takes the followed cubelets from the places x.
TrackedAct(sig, g, x) ==
    CASE sig.kind = "edge" -> EdgeAct(g.edges, x)
      [] sig.kind = "lr" ->
            <<EdgeAct(g.edges, x[1]), EdgeAct(g.edges, x[2]), CornerAct(g.corners, x[3])>>

\* The signature of a cube whose followed cubelets are at the places x.
TrackedSignature(sig, x) ==
    CASE sig.kind = "edge" -> x
      [] sig.kind = "lr" -> <<<<x[1][1], x[2][1]>>, x[3][1]>>

\* The places the followed cubelets can be brought to by the generators,
\* found by acting on the places alone until nothing new turns up.
RECURSIVE TrackedOrbit(_, _, _, _)
TrackedOrbit(sig, gen_perms, frontier, seen) ==
    LET found == {TrackedAct(sig, gen_perms[i], x) :
                     i \in DOMAIN gen_perms, x \in frontier} \ seen
    IN  IF found = {} THEN seen
        ELSE TrackedOrbit(sig, gen_perms, found, seen \cup found)

\* C23: when new has returned, the nodes of the graph are exactly the
\* signatures of the permutations that compositions of the normalised
\* generators give from the identity, one node for each.
C23_NodesAreTheReachableSignatures ==
    (explore.pending = <<>> /\ search.outcome = "idle") =>
        LET sig == RouxGraphs[gen_input].sig
            orbit == TrackedOrbit(sig, SeqPerms(InputGenSet(gen_input)),
                                  {TrackedHome(sig)}, {TrackedHome(sig)})
        IN  /\ DOMAIN explore.graph = {TrackedSignature(sig, x) : x \in orbit}
            /\ Range(explore.nodes) = DOMAIN explore.graph
            /\ Len(explore.nodes) = Cardinality(DOMAIN explore.graph)

\* new has returned for LR, whose graph has 120 nodes.
C23_Witness ==
    /\ gen_input = "lr"
    /\ explore.pending = <<>>
    /\ search.outcome = "idle"
    /\ Cardinality(DOMAIN explore.graph) = 120

\* What one call of explore may do: return at once on a permutation whose
\* signature has a node, leaving the graph as it is, or create the node of
\* a signature that has none, leaving the other nodes as they are.
ExploreCreatesOnce ==
    explore' # explore =>
        LET s == InputSignature(gen_input, Head(explore.pending))
        IN  IF s \in DOMAIN explore.graph
            THEN /\ explore'.graph = explore.graph
                 /\ explore'.nodes = explore.nodes
                 /\ explore'.pending = Tail(explore.pending)
            ELSE /\ DOMAIN explore'.graph = DOMAIN explore.graph \cup {s}
                 /\ \A n \in DOMAIN explore.graph : explore'.graph[n] = explore.graph[n]
                 /\ explore'.nodes = Append(explore.nodes, s)

\* What one round of the loop of search may do when the target is a node:
\* visit one node that was queued and not visited, or end with every node
\* visited.
SearchPopsOnce ==
    (search.outcome = "running" /\ search' # search /\ TargetIsNode) =>
        \/ /\ search'.outcome = "running"
           /\ \E s \in Queued \ Visited :
                  /\ Visited' = Visited \cup {s}
                  /\ Queued' = Queued \ {s}
        \/ /\ search'.outcome = "returned"
           /\ Queued = {}
           /\ Visited' = DOMAIN explore.graph
           /\ Visited' = Visited

\* C24: exploration ends; a node is created once per signature at most and
\* a permutation whose signature has a node is not expanded again; the
\* loop of search visits one new node in every round and ends, with every
\* node visited when the target is one of them.
C24_ExploreAndSearchTerminate ==
    /\ [][ExploreCreatesOnce]_vars
    /\ [][SearchPopsOnce]_vars
    /\ <>(explore.pending = <<>>)
    /\ (search.outcome = "running") ~> (search.outcome \in {"returned", "panicked"})
    /\ (search.outcome = "running" /\ TargetIsNode) ~> (search.outcome = "returned")

\* search has returned on the graph of ROUX_FIRST_EDGE, every node visited.
C24_Witness ==
    /\ gen_input = "first_edge"
    /\ TargetIsNode
    /\ search.outcome = "returned"
    /\ Cardinality(Visited) = 24
    /\ hash_order = "reverse"


(***************************************************************************)
(* Properties of the parser and of the moves it yields.                    *)
(***************************************************************************)
\* The token with the letter of the opposite face in front.
MirroredToken(s) ==
    [i \in DOMAIN s |->
        IF i > 1 THEN s[i]
        ELSE CASE s[1] = "B" -> "F" [] s[1] = "L" -> "R" [] s[1] = "D" -> "U"
               [] s[1] = "b" -> "f" [] s[1] = "l" -> "r" [] s[1] = "d" -> "u"
               [] OTHER -> s[1]]

\* C25: a token that parses yields a Move no other Move shares its cube
\* permutation with, so that tokens with the same permutation have the same
\* Move: Xw is the Move of the lower-case x, X2' the Move of X2; a token on
\* B, L or D is the token on F, R or U with the rotation inverted and the
\* layers [start, end) counted from the other side, [3 - end, 3 - start).
C25_ParserIsCanonical ==
    (parsed.some /\ ~parsed.value.err) =>
        LET mv == parsed.value.value
            got == FromMove(mv)
        IN  /\ \A other \in Moves3 : FromMove(other) = got => other = mv
            /\ \A X \in FaceLetters :
                  /\ token = <<X, "w">> =>
                        parsed.value = ParseMove(<<CHOOSE c \in LowerCase : ToUppercase(c) = X>>)
                  /\ token = <<X, "2", "'">> => parsed.value = ParseMove(<<X, "2">>)
                  /\ token = <<X, "'", "2">> => parsed.value = ParseMove(<<X, "2">>)
            /\ token[1] \in {"B", "L", "D", "b", "l", "d"} =>
                  LET front == ParseMove(MirroredToken(token))
                  IN  /\ ~front.err
                      /\ mv = MkMove(front.value.axis,
                                     RotationInverse(front.value.rotation_type),
                                     3 - front.value.end_depth,
                                     3 - front.value.start_depth)

\* The token bw' has been parsed: a wide turn of the back, anticlockwise.
C25_Witness ==
    /\ parsed.some /\ ~parsed.value.err
    /\ token = <<"b", "w", "'">>
    /\ parsed.value.value = MkMove("FB", "Normal", 1, 3)


\* The tokens Move::from_str is meant for: a face, a slice or a lower-case
\* face letter, followed by any of w, 2 and '.
WellFormed(s) ==
    /\ Len(s) >= 1
    /\ s[1] \in FaceLetters \cup {"M", "E", "S"} \cup {"f", "r", "u", "b", "l", "d"}
    /\ \A i \in 2..Len(s) : s[i] \in {"w", "2", "'"}

\* C26: from_str ends with a Move whose layers are layers of the cube,
\* 0 <= start_depth < end_depth <= 3, on which from_move does not panic, or
\* with the error value, and with the error value on every token that is
\* not well formed; a sequence with the token in it parses when the token
\* does and is the error value when it does not.
C26_ParsedMovesFit ==
    parsed.some =>
        LET r == ParseMove(<<"R">>).value
            before == ParseSequence(<<token, <<"R">>>>)
            after == ParseSequence(<<<<"R">>, token>>)
        IN  IF parsed.value.err
            THEN /\ parsed.value = Err
                 /\ ~WellFormed(token)
                 /\ before = Err /\ after = Err
            ELSE /\ WellFormed(token)
                 /\ parsed.value.value \in Moves3
                 /\ 0 <= parsed.value.value.start_depth
                 /\ parsed.value.value.start_depth < parsed.value.value.end_depth
                 /\ parsed.value.value.end_depth <= 3
                 /\ ~FromMovePanics(parsed.value.value)
                 /\ before = Ok(<<parsed.value.value, r>>)
                 /\ after = Ok(<<r, parsed.value.value>>)

\* The token b2 has been parsed: the two layers at the back, depths 1..3.
C26_Witness ==
    /\ parsed.some /\ ~parsed.value.err
    /\ token = <<"b", "2">>
    /\ parsed.value.value.start_depth = 1
    /\ parsed.value.value.end_depth = 3


(***************************************************************************)
(* Properties of the facelet cube.                                         *)
(***************************************************************************)
\* The stickers of the places of the cube, each a face and a cell of it, on
\* the net Display prints: U above F, then L, F, R, B side by side, D below
\* F.
CornerStickers ==
    {{<<"F", <<0, 0>>>>, <<"U", <<2, 0>>>>, <<"L", <<0, 2>>>>},
     {<<"F", <<0, 2>>>>, <<"U", <<2, 2>>>>, <<"R", <<0, 0>>>>},
     {<<"F", <<2, 0>>>>, <<"D", <<0, 0>>>>, <<"L", <<2, 2>>>>},
     {<<"F", <<2, 2>>>>, <<"D", <<0, 2>>>>, <<"R", <<2, 0>>>>},
     {<<"B", <<0, 0>>>>, <<"U", <<0, 2>>>>, <<"R", <<0, 2>>>>},
     {<<"B", <<0, 2>>>>, <<"U", <<0, 0>>>>, <<"L", <<0, 0>>>>},
     {<<"B", <<2, 0>>>>, <<"D", <<2, 2>>>>, <<"R", <<2, 2>>>>},
     {<<"B", <<2, 2>>>>, <<"D", <<2, 0>>>>, <<"L", <<2, 0>>>>}}

EdgeStickers ==
    {{<<"U", <<2, 1>>>>, <<"F", <<0, 1>>>>}, {<<"U", <<1, 2>>>>, <<"R", <<0, 1>>>>},
     {<<"U", <<0, 1>>>>, <<"B", <<0, 1>>>>}, {<<"U", <<1, 0>>>>, <<"L", <<0, 1>>>>},
     {<<"D", <<0, 1>>>>, <<"F", <<2, 1>>>>}, {<<"D", <<1, 2>>>>, <<"R", <<2, 1>>>>},
     {<<"D", <<2, 1>>>>, <<"B", <<2, 1>>>>}, {<<"D", <<1, 0>>>>, <<"L", <<2, 1>>>>},
     {<<"F", <<1, 2>>>>, <<"R", <<1, 0>>>>}, {<<"F", <<1, 0>>>>, <<"L", <<1, 2>>>>},
     {<<"B", <<1, 0>>>>, <<"R", <<1, 2>>>>}, {<<"B", <<1, 2>>>>, <<"L", <<1, 0>>>>}}

\* The colours a cube shows at a place
ColoursAt(c, place) == {c[st[1]][st[2]] : st \in place}

\* A cube is valid: each corner and each edge place shows the colours of one
\* cubelet of the cube Cube::new makes, no two places the same cubelet, and
\* each colour is on nine stickers.
Valid(c) ==
    /\ \A place \in CornerStickers :
          \E home \in CornerStickers : ColoursAt(c, place) = ColoursAt(CubeNew, home)
    /\ \A place \in EdgeStickers :
          \E home \in EdgeStickers : ColoursAt(c, place) = ColoursAt(CubeNew, home)
    /\ \A p1, p2 \in CornerStickers \cup EdgeStickers :
          ColoursAt(c, p1) = ColoursAt(c, p2) => p1 = p2
    /\ \A colour \in Range(Colour) :
          Cardinality({st \in Range(FaceType) \X Cells : c[st[1]][st[2]] = colour}) = 9

\* C27: the cube perform returns is valid, whichever valid Moves were
\* performed.
C27_PerformKeepsCubeValid == Valid(facelets)


(***************************************************************************)
(* Properties of the blockbuilder.                                         *)
(***************************************************************************)
\* C28: every sequence search returns has at most max_moves moves and
\* accomplishes the condition: the condition holds of the permutation of
\* the whole sequence.
C28_SolutionsAccomplishCondition ==
    solutions.some =>
        \A k \in 1..Len(solutions.value) :
            /\ Len(solutions.value[k][1]) <= query.value.max_moves
            /\ Condition(query.value.cond, FromMoveSequence(solutions.value[k][1]))


\* C29: in the graph new has built the signature of the identity is a node,
\* every transition leads to a node, and no transition of a node leads to
\* the node itself.
C29_TransitionsStayInGraph ==
    explore.pending = <<>> =>
        /\ InputSignature(gen_input, CubeIdentity) \in DOMAIN explore.graph
        /\ \A n \in DOMAIN explore.graph :
              \A seq \in DOMAIN explore.graph[n] :
                  /\ explore.graph[n][seq] \in DOMAIN explore.graph
                  /\ explore.graph[n][seq] # n

\* new has returned for ROUX_SECOND_EDGE: 18 nodes, each with transitions.
C29_Witness ==
    /\ gen_input = "second_edge"
    /\ explore.pending = <<>>
    /\ Cardinality(DOMAIN explore.graph) = 18
    /\ \A n \in DOMAIN explore.graph : DOMAIN explore.graph[n] # {}


(***************************************************************************)
(* Properties of the permutations moves are turned into.                   *)
(***************************************************************************)
\* The sum of the twists in the slots 0..n-1 of an oriented permutation
RECURSIVE TwistSum(_, _)
TwistSum(a, n) == IF n = 0 THEN 0 ELSE a[n - 1][2] + TwistSum(a, n - 1)

\* Each of the three maps of g is a bijection of its carrier, the twists of
\* the edges are 0 or 1 and add up to 0 modulo 2, those of the corners 0, 1
\* or 2 and add up to 0 modulo 3.
IsCubeState(g) ==
    /\ DOMAIN g.centres = DOMAIN FaceType
    /\ {g.centres[i] : i \in DOMAIN g.centres} = Range(FaceType)
    /\ DOMAIN g.edges = DOMAIN EdgeType
    /\ {g.edges[i][1] : i \in DOMAIN g.edges} = Range(EdgeType)
    /\ \A i \in DOMAIN g.edges : g.edges[i][2] \in 0..1
    /\ TwistSum(g.edges, 12) % 2 = 0
    /\ DOMAIN g.corners = DOMAIN CornerType
    /\ {g.corners[i][1] : i \in DOMAIN g.corners} = Range(CornerType)
    /\ \A i \in DOMAIN g.corners : g.corners[i][2] \in 0..2
    /\ TwistSum(g.corners, 8) % 3 = 0

====
